---- MODULE Spec2Model ----
(***************************************************************************)
(* Agentic chat and document ingestion: the browser client (the SSE        *)
(* reader of lib/api.ts, ChatPage / ChatView, DocumentUpload) and the      *)
(* persisted layout of the migrations, as state machines.                  *)
(*                                                                         *)
(* Text is modelled as sequences of atoms.  The atoms of a response body   *)
(* are the literal prefixes "event: " and "data: ", the newline LF, event  *)
(* names, and JSON texts (one atom per JSON object, JSONTable gives the    *)
(* object JSON.parse returns for it).  Any other sequence of atoms after   *)
(* "data: " does not parse.                                                *)
(***************************************************************************)
EXTENDS Integers, Sequences, FiniteSets, TLC

(***************************************************************************)
(* Bounds of the model.                                                    *)
(***************************************************************************)
\* longest response body (in atoms) fed to the SSE reader on its own
MaxStreamLen == 6
\* text-delta events in one answer of the backend
MaxDeltas == 1
\* chat sends started in one run
MaxSends == 2
\* getMessages calls in flight at one time
MaxLoads == 1
\* calls of getMessages pending at a time, when only the loads are followed
MaxPendingLoads == 3
\* handleUpload calls in one run
MaxUploads == 2
\* files in one call of handleUpload
MaxBatch == 2
\* handleDelete calls in flight at a time
MaxDeletes == 1
\* rows of the table the retrieval functions are run on
MaxRows == 2
\* results that occur in the rank lists handed to fusion
MaxResults == 3
\* rows of the tables under row-level security
MaxRlsRows == 2
\* documents created while useRealtimeDocuments is mounted
MaxRtDocuments == 2
\* calls of fetchDocuments
MaxFetches == 2
\* sign-ins, sign-outs and token refreshes while useAuth is mounted
MaxAuthOps == 3
\* edits of the settings form
MaxEdits == 2
\* handleSave calls
MaxSaves == 2

(***************************************************************************)
(* The state: the SSE reader run on its own, ChatPage with ChatView, and    *)
(* DocumentUpload and DocumentList with the documents and chunks tables,    *)
(* and SettingsPage with the global_settings row.                          *)
(***************************************************************************)
VARIABLES
    sseReceived,       \* the atoms of the body read so far
    sseBuffer,         \* buffer of the read loop
    sseCalls,          \* the callbacks made so far, in order
    sseClosed          \* reader.read() has returned done

sseVars == <<sseReceived, sseBuffer, sseCalls, sseClosed>>

VARIABLES
    selectedThreadId,  \* ChatPage state; ChatView is mounted iff it is not null
    initialMessage,    \* ChatPage state
    creating,          \* ChatPage state: a createThread call is pending
    welcomeMessage,    \* the message captured by the pending handleWelcomeSubmit
    cv,                \* ChatView: its React state and refs
    loads,             \* getMessages calls in flight: [thread, cancelled]
    sends,             \* the doSend calls made so far, in order
    abortedCtl,        \* AbortControllers whose abort() was called
    last               \* the send attempt of the last step, if it made one, and its outcome

chatVars == <<selectedThreadId, initialMessage, creating, welcomeMessage, cv, loads,
              sends, abortedCtl, last>>

VARIABLES
    uploading,         \* DocumentUpload state
    uploadError,       \* DocumentUpload state error
    info,              \* DocumentUpload state: the info message, or null
    uploads,           \* the handleUpload calls that passed validation, in order
    documents,         \* rows of the documents table
    chunks,            \* rows of the chunks table
    nextDocumentId     \* the next id the documents table gives out

uploadVars == <<uploading, uploadError, info, uploads, documents, chunks, nextDocumentId>>

VARIABLES
    deleting,          \* DocumentList: the handleDelete call in flight, or null
    indexing           \* the indexer: the embedding dimensions each job was given

docVars == <<deleting, indexing>>

VARIABLES
    settings,          \* the row of global_settings
    page,              \* SettingsPage: its React state
    request            \* the getSettings or updateSettings call in flight, or null

settingsVars == <<settings, page, request>>

VARIABLES
    searchTable,       \* rows of chunks that the retrieval functions are run on
    searchCall,        \* the last call of a retrieval function, or null
    searchResult       \* the rows that call returned

searchVars == <<searchTable, searchCall, searchResult>>

VARIABLES
    rankLists,         \* the vector and the keyword rank list handed to fusion
    fused              \* the fused order, once fusion has run

fusionVars == <<rankLists, fused>>

VARIABLES
    rlsRows,           \* rows of threads, messages, documents and chunks
    rlsLast            \* the last statement a user ran on them, and its outcome

rlsVars == <<rlsRows, rlsLast>>

VARIABLES
    rtServer,          \* the rows of documents of the user, at the server
    rtEvents,          \* realtime events published and not yet delivered
    rtFetches,         \* the calls of fetchDocuments
    rtDocuments,       \* useRealtimeDocuments: documents
    rtLoading,         \* useRealtimeDocuments: loading
    rtNextId           \* the id of the next document

realtimeVars == <<rtServer, rtEvents, rtFetches, rtDocuments, rtLoading, rtNextId>>

VARIABLES
    auth,              \* useAuth: user, session, loading, isAdmin
    sbSession,         \* the session the Supabase client holds
    authEvents,        \* auth-state-change events emitted and not yet handled
    adminRequests,     \* the calls of fetchAdminStatus
    lookup,            \* the initial getSession: "pending" or "done"
    signOuts,          \* calls of signOut waiting for supabase.auth.signOut
    authOps            \* sign-ins, sign-outs and token refreshes so far

authVars == <<auth, sbSession, authEvents, adminRequests, lookup, signOuts, authOps>>

vars == <<sseVars, chatVars, uploadVars, docVars, settingsVars, searchVars, fusionVars, rlsVars, realtimeVars, authVars>>

LF == "LF"
NoThread == "null"
NoError == "null"
NoMessage == "undefined"
NoController == 0
\* err.message of an Error thrown by sendMessage or inside doSend
ErrMessage == "err.message"

(***************************************************************************)
(* lib/api.ts, sendMessage: the read loop.                                 *)
(***************************************************************************)
\* the answer text of the i-th send is made of the i-th token
Tokens == <<"a", "b", "c", "d">>

\* what JSON.parse returns for each JSON text that occurs; a missing field is ""
JSONTable ==
    [j \in {"{a}", "{b}", "{c}", "{d}", "{err}", "{src}", "{}"} |->
        [content |-> CASE j = "{a}" -> "a" [] j = "{b}" -> "b" [] j = "{c}" -> "c"
                       [] j = "{d}" -> "d" [] OTHER -> "",
         error   |-> IF j = "{err}" THEN "stream error" ELSE "",
         sources |-> IF j = "{src}" THEN <<"doc1">> ELSE <<>>]]

\* JSON.parse(data) succeeds
parses(data) == Len(data) = 1 /\ data[1] \in DOMAIN JSONTable

RECURSIVE split(_, _)
\* s.split('\n') with cur the segment being read: the segments between newlines
split(s, cur) ==
    IF s = <<>> THEN <<cur>>
    ELSE IF Head(s) = LF THEN <<cur>> \o split(Tail(s), <<>>)
    ELSE split(Tail(s), Append(cur, Head(s)))

\* line.startsWith(prefix)
startsWith(line, prefix) == Len(line) >= 1 /\ line[1] = prefix

\* the callbacks one complete line makes, in order (api.ts 130-151)
lineCalls(line) ==
    IF startsWith(line, "event: ")
    THEN IF Tail(line) = <<"done">> THEN <<[cb |-> "onDone", arg |-> ""]>> ELSE <<>>
    ELSE IF startsWith(line, "data: ") /\ parses(Tail(line))
    THEN LET parsed == JSONTable[Tail(line)[1]] IN
         (IF parsed.content # "" THEN <<[cb |-> "onTextDelta", arg |-> parsed.content]>> ELSE <<>>)
         \o (IF parsed.error # "" THEN <<[cb |-> "onError", arg |-> parsed.error]>> ELSE <<>>)
    ELSE <<>>

RECURSIVE linesCalls(_)
linesCalls(lines) ==
    IF lines = <<>> THEN <<>> ELSE lineCalls(Head(lines)) \o linesCalls(Tail(lines))

\* a read loop that forgets the unfinished last segment
popBufferDropped(lines) == <<>>

\* lines.pop() || '': the unfinished last segment stays in the buffer
popBuffer(lines) == lines[Len(lines)]

\* one turn of the read loop (api.ts 124-152): the new buffer and the callbacks made
processChunk(buffer, chunk) ==
    LET lines == split(buffer \o chunk, <<>>) IN
    [buffer |-> popBuffer(lines),
     calls  |-> linesCalls(SubSeq(lines, 1, Len(lines) - 1))]

(***************************************************************************)
(* The reader on its own, fed any body over a small alphabet in any split. *)
(***************************************************************************)
Alphabet == {"event: ", "data: ", LF, "{a}", "{b}"}

RECURSIVE SeqsOfLen(_, _)
SeqsOfLen(S, n) ==
    IF n = 0 THEN {<<>>}
    ELSE {Append(s, x) : s \in SeqsOfLen(S, n - 1), x \in S}

SseInit ==
    /\ sseReceived = <<>>
    /\ sseBuffer = <<>>
    /\ sseCalls = <<>>
    /\ sseClosed = FALSE

\* reader.read() returns a chunk of n atoms
SseRead(n) ==
    /\ ~sseClosed
    /\ Len(sseReceived) + n <= MaxStreamLen
    /\ \E chunk \in SeqsOfLen(Alphabet, n) :
         LET r == processChunk(sseBuffer, chunk) IN
         /\ sseReceived' = sseReceived \o chunk
         /\ sseBuffer' = r.buffer
         /\ sseCalls' = sseCalls \o r.calls
    /\ UNCHANGED sseClosed
    /\ UNCHANGED <<chatVars, uploadVars, docVars, settingsVars, searchVars, fusionVars, rlsVars, realtimeVars, authVars>>

\* a read loop that reports done itself when the body ends
SseEndDone ==
    /\ ~sseClosed
    /\ sseClosed' = TRUE
    /\ sseCalls' = Append(sseCalls, [cb |-> "onDone", arg |-> ""])
    /\ UNCHANGED <<sseReceived, sseBuffer>>
    /\ UNCHANGED <<chatVars, uploadVars, docVars, settingsVars, searchVars, fusionVars, rlsVars, realtimeVars, authVars>>

\* reader.read() returns done: the loop ends, what is left in the buffer is dropped
SseEnd ==
    /\ ~sseClosed
    /\ sseClosed' = TRUE
    /\ UNCHANGED <<sseReceived, sseBuffer, sseCalls>>
    /\ UNCHANGED <<chatVars, uploadVars, docVars, settingsVars, searchVars, fusionVars, rlsVars, realtimeVars, authVars>>

SseNext == (\E n \in 1..MaxStreamLen : SseRead(n)) \/ SseEnd

(***************************************************************************)
(* The backend's answer to a chat send, by its interface (spec 4.7, 6):    *)
(* text-delta events, an optional sources event, then done or error, each  *)
(* written as an SSE event.  The transport may end the body at any point.  *)
(***************************************************************************)
sseEvent(type, json) == <<"event: ", type, LF, "data: ", json, LF, LF>>

contentJSON(tok) == CHOOSE j \in DOMAIN JSONTable : JSONTable[j].content = tok

RECURSIVE textDeltas(_, _)
textDeltas(tok, k) ==
    IF k = 0 THEN <<>> ELSE sseEvent("text_delta", contentJSON(tok)) \o textDeltas(tok, k - 1)

ServerStreams(tok) ==
    {textDeltas(tok, k) \o src \o term :
        k \in 0..MaxDeltas,
        src \in {<<>>, sseEvent("sources", "{src}")},
        term \in {sseEvent("done", "{}"), sseEvent("error", "{err}")}}

IsPrefix(p, s) == Len(p) <= Len(s) /\ SubSeq(s, 1, Len(p)) = p

\* the longest body the backend writes, in atoms
MaxBody == Len(sseEvent("done", "{}")) * (MaxDeltas + 2)

\* reader.read() returns the next n atoms of a body the backend writes
SseServerRead(n) ==
    /\ ~sseClosed
    /\ \E stream \in ServerStreams(Tokens[1]) :
         /\ Len(sseReceived) + n <= Len(stream)
         /\ IsPrefix(sseReceived, stream)
         /\ LET chunk == SubSeq(stream, Len(sseReceived) + 1, Len(sseReceived) + n)
                r == processChunk(sseBuffer, chunk)
            IN /\ sseReceived' = sseReceived \o chunk
               /\ sseBuffer' = r.buffer
               /\ sseCalls' = sseCalls \o r.calls
    /\ UNCHANGED sseClosed
    /\ UNCHANGED <<chatVars, uploadVars, docVars, settingsVars, searchVars, fusionVars, rlsVars, realtimeVars, authVars>>

SseServerNext == (\E n \in 1..MaxBody : SseServerRead(n)) \/ SseEnd

(***************************************************************************)
(* ChatPage and ChatView.                                                  *)
(***************************************************************************)
Threads == {"A", "B"}
Inputs == {<<>>, <<" ">>, <<"q">>, <<" ", "q">>}
NullSources == <<"null">>

RECURSIVE TrimLeft(_)
TrimLeft(s) == IF s # <<>> /\ Head(s) = " " THEN TrimLeft(Tail(s)) ELSE s
RECURSIVE TrimRight(_)
TrimRight(s) ==
    IF s # <<>> /\ s[Len(s)] = " " THEN TrimRight(SubSeq(s, 1, Len(s) - 1)) ELSE s
\* String.prototype.trim
Trim(s) == TrimRight(TrimLeft(s))

\* what GET /threads/t/messages answers: the messages persisted for thread t;
\* thread A has an earlier turn, thread B is new
StoredMessages(t) ==
    IF t = "A"
    THEN <<[id |-> "stored", thread_id |-> t, role |-> "user", content |-> <<"q">>,
            sources |-> NullSources],
           [id |-> "stored", thread_id |-> t, role |-> "assistant", content |-> <<"old">>,
            sources |-> NullSources]>>
    ELSE <<>>

\* the useState / useRef initial values of ChatView (part_001 17-27)
FreshView ==
    [messages |-> <<>>, loading |-> TRUE, sending |-> FALSE, waiting |-> FALSE,
     streamingContent |-> <<>>, streamingSources |-> <<>>, error |-> NoError,
     abortControllerRef |-> NoController, initialMessageSentRef |-> FALSE]

mounted == selectedThreadId # NoThread
sending == cv.sending
messages == cv.messages

ChatInit ==
    /\ selectedThreadId = NoThread
    /\ initialMessage = NoMessage
    /\ creating = FALSE
    /\ welcomeMessage = NoMessage
    /\ cv = FreshView
    /\ loads = {}
    /\ sends = <<>>
    /\ abortedCtl = {}
    /\ last = "none"

\* the callbacks doSend hands to sendMessage (part_001 102-120)
onTextDelta(view, text) ==
    [view EXCEPT !.waiting = FALSE, !.streamingContent = Append(@, text)]

onSources(view, sources) == [view EXCEPT !.streamingSources = sources]

onDone(view) ==
    [view EXCEPT !.sending = FALSE, !.waiting = FALSE, !.abortControllerRef = NoController]

onError(view, err) ==
    [view EXCEPT !.error = err, !.sending = FALSE, !.waiting = FALSE,
                 !.abortControllerRef = NoController]

applyCall(view, c) ==
    CASE c.cb = "onTextDelta" -> onTextDelta(view, c.arg)
      [] c.cb = "onDone" -> onDone(view)
      [] c.cb = "onError" -> onError(view, c.arg)

RECURSIVE applyCalls(_, _)
applyCalls(view, calls) ==
    IF calls = <<>> THEN view ELSE applyCalls(applyCall(view, Head(calls)), Tail(calls))

\* a catch that throws the streamed text away when the send was aborted
catchAbortDiscard(view) ==
    [view EXCEPT !.sending = FALSE, !.waiting = FALSE, !.streamingContent = <<>>,
                 !.abortControllerRef = NoController]

\* the catch of doSend (part_001 123-134)
catchAbort(view) ==
    [view EXCEPT !.sending = FALSE, !.waiting = FALSE, !.abortControllerRef = NoController]

catchError(view, message) ==
    [view EXCEPT !.error = message, !.sending = FALSE, !.waiting = FALSE,
                 !.abortControllerRef = NoController]

\* the effect that turns the streamed text into a message (part_001 159-177)
commitEffect(view, threadId) ==
    IF ~view.sending /\ view.streamingContent # <<>>
    THEN [view EXCEPT
            !.messages = Append(@,
                [id |-> "assistant", thread_id |-> threadId, role |-> "assistant",
                 content |-> view.streamingContent,
                 sources |-> IF Len(view.streamingSources) > 0
                             THEN view.streamingSources ELSE NullSources]),
            !.streamingContent = <<>>,
            !.streamingSources = <<>>]
    ELSE view

\* a doSend that checks the message only
doSendRejectsBlank(view, userMessage) == Trim(userMessage) = <<>>

\* the guard of doSend (part_001 64)
doSendRejects(view, userMessage) == Trim(userMessage) = <<>> \/ view.sending

\* doSend up to its first await (part_001 63-96): the view, the sends, the outcome
doSend(view, ss, threadId, userMessage) ==
    IF doSendRejects(view, userMessage)
    THEN [cv |-> view, sends |-> ss, out |-> "rejected"]
    ELSE LET id == Len(ss) + 1
             isFirstMessage == view.messages = <<>>
         IN [cv |-> [view EXCEPT
                       !.sending = TRUE, !.waiting = TRUE, !.streamingContent = <<>>,
                       !.streamingSources = <<>>, !.error = NoError,
                       !.abortControllerRef = id,
                       !.messages = Append(@,
                           [id |-> "temp", thread_id |-> threadId, role |-> "user",
                            content |-> userMessage, sources |-> NullSources])],
             sends |-> Append(ss,
                       [thread |-> threadId,
                        pc |-> IF isFirstMessage THEN "title" ELSE "fetch",
                        signal |-> IF isFirstMessage THEN NoController ELSE id,
                        wire |-> <<>>, buffer |-> <<>>]),
             out |-> "sent"]

\* the effect that sends the initial message (part_001 145-150); renderLoading is
\* the value of loading in the render the effect belongs to
initialMessageEffect(view, renderLoading, ss, threadId, initMsg) ==
    IF ~renderLoading /\ initMsg # NoMessage /\ ~view.initialMessageSentRef
    THEN doSend([view EXCEPT !.initialMessageSentRef = TRUE], ss, threadId, initMsg)
    ELSE [cv |-> view, sends |-> ss, out |-> "none"]

\* the effect that loads the messages of a thread (part_001 37-61), up to its await
loadEffect(view) == [view EXCEPT !.initialMessageSentRef = FALSE, !.loading = TRUE]

\* a cleanup that cancels nothing
cancelNone(ls) == ls

\* the cleanup of the load effect: cancelled = true (part_001 60)
cancelAll(ls) == {[l EXCEPT !.cancelled = TRUE] : l \in ls}

startLoad(ls, t) == cancelAll(ls) \cup {[thread |-> t, cancelled |-> FALSE]}

settled(i) == sends[i].pc \in {"settled", "orphaned"}

\* the promise of doSend i is settled: nothing of its request is kept
settle(ss, i) ==
    [ss EXCEPT ![i] = [thread |-> ss[i].thread, pc |-> "settled", signal |-> NoController,
                       wire |-> <<>>, buffer |-> <<>>]]

\* unmounting ChatView: its pending calls can no longer touch a view
orphan(ss) ==
    [i \in DOMAIN ss |-> IF ss[i].pc \in {"title", "fetch", "read"}
                         THEN [settle(ss, i)[i] EXCEPT !.pc = "orphaned"] ELSE ss[i]]

(***************************************************************************)
(* The handlers of ChatPage and ChatView.  Every step ends with the commit *)
(* effect of the render that follows it.                                   *)
(***************************************************************************)
\* ChatPage.handleSelectThread (ChatPage.tsx 26-29) with the renders it causes:
\* ChatView is mounted, or its threadId changes and the load effect runs again
SelectThread(t) ==
    /\ selectedThreadId' = t
    /\ initialMessage' = NoMessage
    /\ IF selectedThreadId = t
       THEN UNCHANGED <<cv, loads>>
       ELSE /\ cv' = loadEffect(IF mounted THEN cv ELSE FreshView)
            /\ loads' = startLoad(loads, t)
    /\ last' = "none"
    /\ UNCHANGED <<creating, welcomeMessage, sends, abortedCtl>>
    /\ UNCHANGED <<sseVars, uploadVars, docVars, settingsVars, searchVars, fusionVars, rlsVars, realtimeVars, authVars>>

\* ThreadList.handleDeleteThread of the selected thread (part_001 375-386):
\* onSelectThread('') unmounts ChatView
DeleteSelectedThread ==
    /\ mounted
    /\ selectedThreadId' = NoThread
    /\ initialMessage' = NoMessage
    /\ cv' = FreshView
    /\ loads' = cancelAll(loads)
    /\ sends' = orphan(sends)
    /\ last' = "none"
    /\ UNCHANGED <<creating, welcomeMessage, abortedCtl>>
    /\ UNCHANGED <<sseVars, uploadVars, docVars, settingsVars, searchVars, fusionVars, rlsVars, realtimeVars, authVars>>

\* ChatPage.handleWelcomeSubmit up to its await (ChatPage.tsx 31-38)
WelcomeSubmit(inp) ==
    /\ ~mounted
    /\ ~(Trim(inp) = <<>> \/ creating)
    /\ creating' = TRUE
    /\ welcomeMessage' = Trim(inp)
    /\ last' = "none"
    /\ UNCHANGED <<selectedThreadId, initialMessage, cv, loads, sends, abortedCtl>>
    /\ UNCHANGED <<sseVars, uploadVars, docVars, settingsVars, searchVars, fusionVars, rlsVars, realtimeVars, authVars>>

\* createThread resolves with a new thread t (ChatPage.tsx 39-47); when a thread
\* was selected meanwhile, ChatView is mounted and gets a new threadId and an
\* initialMessage in one render: load effect, then initial-message effect
CreateThreadDone(t) ==
    /\ creating
    /\ t # selectedThreadId
    /\ creating' = FALSE
    /\ welcomeMessage' = NoMessage
    /\ initialMessage' = welcomeMessage
    /\ selectedThreadId' = t
    /\ loads' = startLoad(loads, t)
    /\ LET view == IF mounted THEN cv ELSE FreshView
           r == initialMessageEffect(loadEffect(view), view.loading, sends, t,
                                     welcomeMessage)
       IN /\ Len(r.sends) <= MaxSends
          /\ cv' = commitEffect(r.cv, t)
          /\ sends' = r.sends
          /\ last' = IF r.out = "none" THEN "none" ELSE "initialMessage:" \o r.out
    /\ UNCHANGED abortedCtl
    /\ UNCHANGED <<sseVars, uploadVars, docVars, settingsVars, searchVars, fusionVars, rlsVars, realtimeVars, authVars>>

\* createThread rejects (ChatPage.tsx 43-47)
CreateThreadFail ==
    /\ creating
    /\ creating' = FALSE
    /\ welcomeMessage' = NoMessage
    /\ last' = "none"
    /\ UNCHANGED <<selectedThreadId, initialMessage, cv, loads, sends, abortedCtl>>
    /\ UNCHANGED <<sseVars, uploadVars, docVars, settingsVars, searchVars, fusionVars, rlsVars, realtimeVars, authVars>>

\* getMessages of load l resolves (part_001 44-56), then the
\* initial-message effect of the render with loading = false
LoadDone(l) ==
    /\ l \in loads
    /\ loads' = loads \ {l}
    /\ IF l.cancelled
       THEN /\ last' = "none"
            /\ UNCHANGED <<cv, sends>>
       ELSE LET view == [cv EXCEPT !.messages = StoredMessages(l.thread), !.loading = FALSE]
                r == initialMessageEffect(view, FALSE, sends, selectedThreadId,
                                          initialMessage)
            IN /\ Len(r.sends) <= MaxSends
               /\ cv' = commitEffect(r.cv, selectedThreadId)
               /\ sends' = r.sends
               /\ last' = IF r.out = "none" THEN "none" ELSE "initialMessage:" \o r.out
    /\ UNCHANGED <<selectedThreadId, initialMessage, creating, welcomeMessage, abortedCtl>>
    /\ UNCHANGED <<sseVars, uploadVars, docVars, settingsVars, searchVars, fusionVars, rlsVars, realtimeVars, authVars>>

\* getMessages of load l rejects (part_001 48-56)
LoadFail(l) ==
    /\ l \in loads
    /\ loads' = loads \ {l}
    /\ IF l.cancelled
       THEN /\ last' = "none"
            /\ UNCHANGED <<cv, sends>>
       ELSE LET view == [cv EXCEPT !.loading = FALSE]
                r == initialMessageEffect(view, FALSE, sends, selectedThreadId,
                                          initialMessage)
            IN /\ Len(r.sends) <= MaxSends
               /\ cv' = commitEffect(r.cv, selectedThreadId)
               /\ sends' = r.sends
               /\ last' = IF r.out = "none" THEN "none" ELSE "initialMessage:" \o r.out
    /\ UNCHANGED <<selectedThreadId, initialMessage, creating, welcomeMessage, abortedCtl>>
    /\ UNCHANGED <<sseVars, uploadVars, docVars, settingsVars, searchVars, fusionVars, rlsVars, realtimeVars, authVars>>

\* the guard of handleSubmit (part_001 139)
handleSubmitRejects(view, input) == Trim(input) = <<>> \/ view.sending

\* ChatView.handleSubmit (part_001 137-143)
HandleSubmit(input) ==
    /\ mounted
    /\ LET r == IF handleSubmitRejects(cv, input)
                THEN [cv |-> cv, sends |-> sends, out |-> "rejected"]
                ELSE doSend(cv, sends, selectedThreadId, Trim(input))
       IN /\ Len(r.sends) <= MaxSends
          /\ cv' = commitEffect(r.cv, selectedThreadId)
          /\ sends' = r.sends
          /\ last' = "handleSubmit:" \o r.out
    /\ UNCHANGED <<selectedThreadId, initialMessage, creating, welcomeMessage, loads,
                   abortedCtl>>
    /\ UNCHANGED <<sseVars, uploadVars, docVars, settingsVars, searchVars, fusionVars, rlsVars, realtimeVars, authVars>>

\* ChatView.handleStop (part_001 152-157)
HandleStop ==
    /\ mounted
    /\ IF cv.abortControllerRef # NoController
       THEN /\ abortedCtl' = abortedCtl \cup {cv.abortControllerRef}
            /\ cv' = [cv EXCEPT !.abortControllerRef = NoController]
       ELSE UNCHANGED <<abortedCtl, cv>>
    /\ last' = "none"
    /\ UNCHANGED <<selectedThreadId, initialMessage, creating, welcomeMessage, loads, sends>>
    /\ UNCHANGED <<sseVars, uploadVars, docVars, settingsVars, searchVars, fusionVars, rlsVars, realtimeVars, authVars>>

(***************************************************************************)
(* The continuations of doSend after each of its awaits.                   *)
(***************************************************************************)
pending(i, pcs) == i \in DOMAIN sends /\ sends[i].pc \in pcs

\* updateThread settles (part_001 86-96); the argument of sendMessage is then
\* built, reading abortControllerRef.current.signal (part_001 121)
TitleSettled(i) ==
    /\ pending(i, {"title"})
    /\ IF cv.abortControllerRef = NoController
       THEN /\ cv' = commitEffect(catchError(cv, ErrMessage), selectedThreadId)
            /\ sends' = settle(sends, i)
            /\ last' = "none"
       ELSE /\ sends' = [sends EXCEPT ![i].pc = "fetch", ![i].signal = cv.abortControllerRef]
            /\ last' = "none"
            /\ UNCHANGED cv
    /\ UNCHANGED <<selectedThreadId, initialMessage, creating, welcomeMessage, loads,
                   abortedCtl>>
    /\ UNCHANGED <<sseVars, uploadVars, docVars, settingsVars, searchVars, fusionVars, rlsVars, realtimeVars, authVars>>

\* getSession and fetch succeed, the response is ok and has a body (api.ts 91-114)
FetchOk(i, stream) ==
    /\ pending(i, {"fetch"})
    /\ sends[i].signal \notin abortedCtl
    /\ sends' = [sends EXCEPT ![i].pc = "read", ![i].wire = stream]
    /\ last' = "none"
    /\ UNCHANGED <<selectedThreadId, initialMessage, creating, welcomeMessage, cv, loads,
                   abortedCtl>>
    /\ UNCHANGED <<sseVars, uploadVars, docVars, settingsVars, searchVars, fusionVars, rlsVars, realtimeVars, authVars>>

\* no session, fetch rejects, the response is not ok or has no body: sendMessage
\* throws an Error (api.ts 92-114), caught by doSend
FetchFail(i) ==
    /\ pending(i, {"fetch"})
    /\ cv' = commitEffect(catchError(cv, ErrMessage), selectedThreadId)
    /\ sends' = settle(sends, i)
    /\ last' = "none"
    /\ UNCHANGED <<selectedThreadId, initialMessage, creating, welcomeMessage, loads,
                   abortedCtl>>
    /\ UNCHANGED <<sseVars, uploadVars, docVars, settingsVars, searchVars, fusionVars, rlsVars, realtimeVars, authVars>>

\* fetch or reader.read() rejects with an AbortError, caught by doSend
AbortObserved(i) ==
    /\ pending(i, {"fetch", "read"})
    /\ sends[i].signal \in abortedCtl
    /\ cv' = commitEffect(catchAbort(cv), selectedThreadId)
    /\ sends' = settle(sends, i)
    /\ last' = "none"
    /\ UNCHANGED <<selectedThreadId, initialMessage, creating, welcomeMessage, loads,
                   abortedCtl>>
    /\ UNCHANGED <<sseVars, uploadVars, docVars, settingsVars, searchVars, fusionVars, rlsVars, realtimeVars, authVars>>

\* the chunks reader.read() may return next: the body arrives in whole events, one
\* or more at a time (SpecSSE feeds the reader every split of a body)
Chunks(wire) ==
    {SubSeq(wire, 1, n) : n \in {k \in 2..Len(wire) : wire[k] = LF /\ wire[k - 1] = LF}}

\* reader.read() returns the next chunk of the body (api.ts 120-152); after the
\* last chunk of a body that arrived whole the next read returns done, the loop
\* ends and sendMessage resolves (api.ts 122, 154-157)
Read(i) ==
    /\ pending(i, {"read"})
    /\ sends[i].signal \notin abortedCtl
    /\ \E chunk \in Chunks(sends[i].wire) :
         LET s == sends[i]
             r == processChunk(s.buffer, chunk)
             read == [sends EXCEPT
                        ![i].wire = SubSeq(s.wire, Len(chunk) + 1, Len(s.wire)),
                        ![i].buffer = r.buffer]
         IN /\ cv' = commitEffect(applyCalls(cv, r.calls), selectedThreadId)
            /\ sends' = IF read[i].wire = <<>> THEN settle(read, i) ELSE read
    /\ last' = "none"
    /\ UNCHANGED <<selectedThreadId, initialMessage, creating, welcomeMessage, loads,
                   abortedCtl>>
    /\ UNCHANGED <<sseVars, uploadVars, docVars, settingsVars, searchVars, fusionVars, rlsVars, realtimeVars, authVars>>

\* reader.read() returns done where the transport closed the body early: the
\* loop ends and sendMessage resolves (api.ts 122, 154-157)
ReadEnd(i) ==
    /\ pending(i, {"read"})
    /\ sends[i].signal \notin abortedCtl
    /\ sends' = settle(sends, i)
    /\ last' = "none"
    /\ UNCHANGED <<selectedThreadId, initialMessage, creating, welcomeMessage, cv, loads,
                   abortedCtl>>
    /\ UNCHANGED <<sseVars, uploadVars, docVars, settingsVars, searchVars, fusionVars, rlsVars, realtimeVars, authVars>>

\* reader.read() rejects with a network error, caught by doSend
ReadFail(i) ==
    /\ pending(i, {"read"})
    /\ sends[i].signal \notin abortedCtl
    /\ cv' = commitEffect(catchError(cv, ErrMessage), selectedThreadId)
    /\ sends' = settle(sends, i)
    /\ last' = "none"
    /\ UNCHANGED <<selectedThreadId, initialMessage, creating, welcomeMessage, loads,
                   abortedCtl>>
    /\ UNCHANGED <<sseVars, uploadVars, docVars, settingsVars, searchVars, fusionVars, rlsVars, realtimeVars, authVars>>

\* the loads that may be pending when another one starts
loadsBelow(n, t) == selectedThreadId = t \/ Cardinality(loads) < n

\* ChatView switching between threads while their messages load
LoadNext ==
    \/ \E t \in Threads : loadsBelow(MaxPendingLoads, t) /\ SelectThread(t)
    \/ DeleteSelectedThread
    \/ \E l \in loads : LoadDone(l)
    \/ \E l \in loads : LoadFail(l)
    \/ \E inp \in Inputs : HandleSubmit(inp)

ChatNext ==
    \/ \E t \in Threads : loadsBelow(MaxLoads, t) /\ SelectThread(t)
    \/ DeleteSelectedThread
    \/ \E inp \in Inputs : WelcomeSubmit(inp)
    \/ \E t \in Threads : Cardinality(loads) < MaxLoads /\ CreateThreadDone(t)
    \/ CreateThreadFail
    \/ \E l \in loads : LoadDone(l)
    \/ \E l \in loads : LoadFail(l)
    \/ \E inp \in Inputs : HandleSubmit(inp)
    \/ HandleStop
    \/ \E i \in 1..MaxSends : TitleSettled(i)
    \/ \E i \in 1..MaxSends : \E stream \in ServerStreams(Tokens[i]) : FetchOk(i, stream)
    \/ \E i \in 1..MaxSends : FetchFail(i)
    \/ \E i \in 1..MaxSends : AbortObserved(i)
    \/ \E i \in 1..MaxSends : Read(i)
    \/ \E i \in 1..MaxSends : ReadEnd(i)
    \/ \E i \in 1..MaxSends : ReadFail(i)

(***************************************************************************)
(* DocumentUpload (part_001 580-652) and uploadDocument (api.ts 160-183).  *)
(* A file name is the sequence of its segments between dots.               *)
(***************************************************************************)
NoInfo == [text |-> "null", names |-> <<>>]

\* the info message of handleUpload (part_001 620): it names the skipped files
infoMessage(skippedFiles) ==
    [text |-> "is unchanged - skipped re-processing.", names |-> skippedFiles]

ALLOWED_EXTENSIONS == <<<<".", "txt">>, <<".", "md">>>>

\* 10 * 1024 * 1024 (part_001 591)
MaxFileSize == 10 * 1024 * 1024

\* String.prototype.toLowerCase on the segments that occur
toLowerCase(seg) == CASE seg = "MD" -> "md" [] seg = "TXT" -> "txt" [] OTHER -> seg

File(name, size, body) == [name |-> name, size |-> size, body |-> body]

\* the files a user may pick: a.txt in two versions, b.MD, c.pdf and a large a.txt
Files ==
    {File(<<"a", "txt">>, 1, "v1"), File(<<"a", "txt">>, 1, "v2"),
     File(<<"b", "MD">>, 1, "v1"), File(<<"c", "pdf">>, 1, "v1"),
     File(<<"a", "txt">>, MaxFileSize + 1, "v1")}

\* the file lists a drop or a file input hands to handleUpload
Batches == UNION {SeqsOfLen(Files, n) : n \in 1..MaxBatch}

\* validateFile (part_001 586-595): the error message, or null
validateFile(file) ==
    LET ext == <<".", toLowerCase(file.name[Len(file.name)])>> IN
    IF ext \notin {ALLOWED_EXTENSIONS[k] : k \in DOMAIN ALLOWED_EXTENSIONS}
    THEN "Unsupported file type"
    ELSE IF file.size > MaxFileSize THEN "File too large" ELSE NoError

RECURSIVE firstValidationError(_)
\* the first loop of handleUpload (part_001 602-608)
firstValidationError(files) ==
    IF files = <<>> THEN NoError
    ELSE IF validateFile(Head(files)) # NoError THEN validateFile(Head(files))
    ELSE firstValidationError(Tail(files))

(***************************************************************************)
(* The upload endpoint and the indexer, by their interface (spec 4.1, 4.5, *)
(* 6); the tables are those of the migrations.                             *)
(***************************************************************************)
Owner == "u1"

\* the ids the documents table gives out
DocumentIds == 1..(MaxUploads * MaxBatch)

\* no embedding: chunks.embedding is nullable (migration 28), and a job that
\* has not started has no vectors
NoEmbedding == 0

\* deletingId is null (part_001 477)
NoDocument == 0

\* the jobs of the documents in gone are forgotten
forget(jobs, gone) ==
    [i \in DocumentIds |-> IF i \in {d.id : d \in gone} THEN NoEmbedding ELSE jobs[i]]

\* the content fingerprint of the bytes of a file
fingerprint(body) == CASE body = "v1" -> "sha:1" [] body = "v2" -> "sha:2"

\* the text segments the chunker cuts the bytes of a file into
chunkTexts(body) == CASE body = "v1" -> <<"v1/0", "v1/1">> [] body = "v2" -> <<"v2/0">>

documentsOf(docs, owner, filename) ==
    {d \in docs : d.user_id = owner /\ d.filename = filename}

\* the most recent Document for (owner, filename)
mostRecent(docs, owner, filename) ==
    CHOOSE d \in documentsOf(docs, owner, filename) :
        \A e \in documentsOf(docs, owner, filename) : e.id <= d.id

\* a record manager that takes every upload for a new file
decideNew(docs, owner, filename, body) == "new"

\* a record manager that does not compare fingerprints
decideByName(docs, owner, filename, body) ==
    IF documentsOf(docs, owner, filename) = {} THEN "new" ELSE "changed"

\* Record Manager decide(owner, filename, rawBytes) (spec 4.1)
decide(docs, owner, filename, body) ==
    IF documentsOf(docs, owner, filename) = {} THEN "new"
    ELSE IF mostRecent(docs, owner, filename).content_hash = fingerprint(body)
    THEN "unchanged"
    ELSE "changed"

\* a record manager that replaces nothing: the new version is stored beside the
\* prior one
replacedByNone(docs, verdict, owner, filename) == {}

\* the Documents a changed upload replaces: the prior ones of (owner, filename)
\* (spec 4.1, 4.5)
replacedBy(docs, verdict, owner, filename) ==
    IF verdict = "changed" THEN documentsOf(docs, owner, filename) ELSE {}

\* a row of documents created with a status outside the CHECK of the table
newDocumentUploaded(id, owner, file) ==
    [id |-> id, user_id |-> owner, filename |-> file.name, content_hash |-> fingerprint(file.body),
     storage_path |-> file.body, status |-> "uploaded", chunk_count |-> 0]

\* a row of documents as an accepted upload creates it (migration 7-20, part_005)
newDocument(id, owner, file) ==
    [id |-> id, user_id |-> owner, filename |-> file.name, content_hash |-> fingerprint(file.body),
     storage_path |-> file.body, status |-> "pending", chunk_count |-> 0]

\* rows of chunks numbered from 1
chunkRowsFromOne(d) ==
    {[document_id |-> d.id, user_id |-> d.user_id, chunk_index |-> k,
      content |-> chunkTexts(d.storage_path)[k], embedding |-> indexing[d.id]] :
        k \in DOMAIN chunkTexts(d.storage_path)}

\* the rows of chunks of document d (migration 22-31); a vector is modelled by
\* its dimensionality, that of the vectors the job of d was given
chunkRows(d) ==
    {[document_id |-> d.id, user_id |-> d.user_id, chunk_index |-> k - 1,
      content |-> chunkTexts(d.storage_path)[k], embedding |-> indexing[d.id]] :
        k \in DOMAIN chunkTexts(d.storage_path)}

\* a chunks table whose document_id is no foreign key with ON DELETE CASCADE
cascadeNone(chs, deleted) == chs

\* DELETE of documents: ON DELETE CASCADE removes their chunks (migration 24)
cascade(chs, deleted) == {c \in chs : c.document_id \notin {d.id : d \in deleted}}

UploadInit ==
    /\ uploading = FALSE
    /\ uploadError = NoError
    /\ info = NoInfo
    /\ uploads = <<>>
    /\ documents = {}
    /\ chunks = {}
    /\ nextDocumentId = 1
    /\ deleting = [deletingId |-> NoDocument, calls |-> {}]
    /\ indexing = [i \in DocumentIds |-> NoEmbedding]

\* handleDrop / handleFileInput call handleUpload(files): handleUpload up to its
\* first await (part_001 597-612, 640-652)
HandleUpload(files) ==
    /\ Len(uploads) < MaxUploads
    /\ info' = NoInfo
    /\ IF firstValidationError(files) # NoError
       THEN /\ uploadError' = firstValidationError(files)
            /\ UNCHANGED <<uploading, uploads>>
       ELSE /\ uploadError' = NoError
            /\ uploading' = TRUE
            /\ uploads' = Append(uploads,
                   [files |-> files, k |-> 1, skippedFiles |-> <<>>, pc |-> "sent",
                    skipped |-> FALSE, replaced |-> 0])
    /\ UNCHANGED <<documents, chunks, nextDocumentId>>
    /\ UNCHANGED <<deleting, indexing>>
    /\ UNCHANGED <<sseVars, chatVars, settingsVars, searchVars, fusionVars, rlsVars, realtimeVars, authVars>>

\* the upload endpoint handles the request of handleUpload call u and answers
\* it: decide, and for a new or changed file the new Document, in one transaction
Accept(u) ==
    /\ uploads[u].pc = "sent"
    /\ LET file == uploads[u].files[uploads[u].k]
           verdict == decide(documents, Owner, file.name, file.body)
           prior == replacedBy(documents, verdict, Owner, file.name)
       IN /\ uploads' = [uploads EXCEPT ![u].pc = "answered",
                                        ![u].skipped = (verdict = "unchanged"),
                                        ![u].replaced = Cardinality(chunks \ cascade(chunks, prior))]
          /\ IF verdict = "unchanged"
             THEN UNCHANGED <<documents, chunks, nextDocumentId>>
             ELSE /\ documents' = (documents \ prior)
                                  \cup {newDocument(nextDocumentId, Owner, file)}
                  /\ chunks' = cascade(chunks, prior)
                  /\ nextDocumentId' = nextDocumentId + 1
          /\ indexing' = forget(indexing, prior)
    /\ UNCHANGED <<uploading, uploadError, info, deleting>>
    /\ UNCHANGED <<sseVars, chatVars, settingsVars, searchVars, fusionVars, rlsVars, realtimeVars, authVars>>

\* await uploadDocument(file) resolves: the rest of the loop turn, and after
\* the last file the end of handleUpload (part_001 614-627)
UploadResolved(u) ==
    /\ uploads[u].pc = "answered"
    /\ LET up == uploads[u]
           skippedFiles == IF up.skipped THEN Append(up.skippedFiles, up.files[up.k].name)
                           ELSE up.skippedFiles
       IN IF up.k < Len(up.files)
          THEN /\ uploads' = [uploads EXCEPT ![u].k = up.k + 1, ![u].pc = "sent",
                                             ![u].skipped = FALSE, ![u].replaced = 0,
                                             ![u].skippedFiles = skippedFiles]
               /\ UNCHANGED <<uploading, info>>
          ELSE /\ uploads' = [uploads EXCEPT ![u].pc = "done", ![u].skipped = FALSE,
                                             ![u].replaced = 0,
                                             ![u].skippedFiles = skippedFiles]
               /\ info' = IF Len(skippedFiles) > 0 THEN infoMessage(skippedFiles) ELSE info
               /\ uploading' = FALSE
    /\ UNCHANGED <<uploadError, documents, chunks, nextDocumentId>>
    /\ UNCHANGED <<deleting, indexing>>
    /\ UNCHANGED <<sseVars, chatVars, settingsVars, searchVars, fusionVars, rlsVars, realtimeVars, authVars>>

\* await uploadDocument(file) rejects: no session, fetch fails or the response
\* is not ok (api.ts 161-180); catch and finally of handleUpload (part_001 622-627)
UploadRejected(u) ==
    /\ uploads[u].pc \in {"sent", "answered"}
    /\ uploads' = [uploads EXCEPT ![u].pc = "failed", ![u].skipped = FALSE,
                                     ![u].replaced = 0]
    /\ uploadError' = ErrMessage
    /\ uploading' = FALSE
    /\ UNCHANGED <<info, documents, chunks, nextDocumentId>>
    /\ UNCHANGED <<deleting, indexing>>
    /\ UNCHANGED <<sseVars, chatVars, settingsVars, searchVars, fusionVars, rlsVars, realtimeVars, authVars>>

\* the indexer takes up document d: pending -> processing (spec 4.5); the job
\* embeds with the dimensionality configured now (spec 4.3)
IndexStart(d) ==
    /\ d \in documents
    /\ d.status = "pending"
    /\ documents' = (documents \ {d}) \cup {[d EXCEPT !.status = "processing"]}
    /\ indexing' = [indexing EXCEPT ![d.id] = settings.embedding_dimensions]
    /\ UNCHANGED deleting
    /\ UNCHANGED <<uploading, uploadError, info, uploads, chunks, nextDocumentId>>
    /\ UNCHANGED <<sseVars, chatVars, settingsVars, searchVars, fusionVars, rlsVars, realtimeVars, authVars>>

\* an indexer that marks the Document completed before the chunks are written
IndexCompleteNoRows(d) ==
    /\ d \in documents
    /\ d.status = "processing"
    /\ documents' = (documents \ {d})
           \cup {[d EXCEPT !.status = "completed", !.chunk_count = Cardinality(chunkRows(d))]}
    /\ UNCHANGED <<uploading, uploadError, info, uploads, chunks, nextDocumentId>>
    /\ UNCHANGED <<deleting, indexing>>
    /\ UNCHANGED <<sseVars, chatVars, settingsVars, searchVars, fusionVars, rlsVars, realtimeVars, authVars>>

\* a pipeline that writes vectors without comparing their dimensionality with
\* the configured one
dimensionsAgreeAny(dims, stored) == TRUE

\* the dimensionality of the vectors equals the configured one (spec 4.3); a
\* mismatch is fatal to the job
dimensionsAgree(dims, stored) == dims = stored.embedding_dimensions

\* the pipeline succeeds: the chunks and status completed with chunk_count are
\* written together (spec 4.5)
IndexComplete(d) ==
    /\ d \in documents
    /\ d.status = "processing"
    /\ dimensionsAgree(indexing[d.id], settings)
    /\ UNCHANGED <<deleting, indexing>>
    /\ documents' = (documents \ {d})
           \cup {[d EXCEPT !.status = "completed", !.chunk_count = Cardinality(chunkRows(d))]}
    /\ chunks' = chunks \cup chunkRows(d)
    /\ UNCHANGED <<uploading, uploadError, info, uploads, nextDocumentId>>
    /\ UNCHANGED <<sseVars, chatVars, settingsVars, searchVars, fusionVars, rlsVars, realtimeVars, authVars>>

\* an indexer that puts a Document whose pipeline failed back in the queue
IndexRetry(d) ==
    /\ d \in documents
    /\ d.status = "processing"
    /\ documents' = (documents \ {d}) \cup {[d EXCEPT !.status = "pending"]}
    /\ UNCHANGED <<uploading, uploadError, info, uploads, chunks, nextDocumentId>>
    /\ UNCHANGED <<deleting, indexing>>
    /\ UNCHANGED <<sseVars, chatVars, settingsVars, searchVars, fusionVars, rlsVars, realtimeVars, authVars>>

\* a step of the pipeline fails: processing -> failed (spec 4.5)
IndexFail(d) ==
    /\ d \in documents
    /\ d.status = "processing"
    /\ documents' = (documents \ {d}) \cup {[d EXCEPT !.status = "failed"]}
    /\ UNCHANGED <<uploading, uploadError, info, uploads, chunks, nextDocumentId>>
    /\ UNCHANGED <<deleting, indexing>>
    /\ UNCHANGED <<sseVars, chatVars, settingsVars, searchVars, fusionVars, rlsVars, realtimeVars, authVars>>

\* DocumentList.handleDelete(doc) up to its await (part_001 480-485)
HandleDelete(d) ==
    /\ d \in documents
    /\ Cardinality(deleting.calls) < MaxDeletes
    /\ \A c \in deleting.calls : c.id # d.id
    /\ deleting' = [deletingId |-> d.id,
                    calls |-> deleting.calls \cup {[id |-> d.id, pc |-> "sent", removed |-> 0]}]
    /\ UNCHANGED <<uploadVars, indexing>>
    /\ UNCHANGED <<sseVars, chatVars, settingsVars, searchVars, fusionVars, rlsVars, realtimeVars, authVars>>

\* the documents endpoint handles the DELETE of call c (api.ts 189-199): the
\* row goes, and its chunks with it (migration 24)
DeleteDocument(c) ==
    /\ c.pc = "sent"
    /\ LET gone == {d \in documents : d.id = c.id} IN
       /\ documents' = documents \ gone
       /\ chunks' = cascade(chunks, gone)
       /\ indexing' = forget(indexing, gone)
       /\ deleting' = [deleting EXCEPT !.calls = (@ \ {c}) \cup
              {[c EXCEPT !.pc = "answered",
                         !.removed = Cardinality(chunks \ cascade(chunks, gone))]}]
    /\ UNCHANGED <<uploading, uploadError, info, uploads, nextDocumentId>>
    /\ UNCHANGED <<sseVars, chatVars, settingsVars, searchVars, fusionVars, rlsVars, realtimeVars, authVars>>

\* await deleteDocument(doc.id) resolves or rejects: catch and finally of
\* handleDelete (part_001 486-490)
DeleteSettled(c) ==
    /\ deleting' = [deletingId |-> NoDocument, calls |-> deleting.calls \ {c}]
    /\ UNCHANGED <<uploadVars, indexing>>
    /\ UNCHANGED <<sseVars, chatVars, settingsVars, searchVars, fusionVars, rlsVars, realtimeVars, authVars>>

UploadNext ==
    \/ \E files \in Batches : HandleUpload(files)
    \/ \E u \in DOMAIN uploads : Accept(u)
    \/ \E u \in DOMAIN uploads : UploadResolved(u)
    \/ \E u \in DOMAIN uploads : UploadRejected(u)
    \/ \E d \in documents : IndexStart(d)
    \/ \E d \in documents : IndexComplete(d)
    \/ \E d \in documents : IndexFail(d)

\* the files a user may pick, and a file whose name is md, without a dot
PickedFiles == Files \cup {File(<<"md">>, 1, "v1")}

PickedBatches == UNION {SeqsOfLen(PickedFiles, n) : n \in 1..MaxBatch}

\* DocumentUpload and the upload endpoint, on any file a user may pick
ValidateNext ==
    \/ \E files \in PickedBatches : HandleUpload(files)
    \/ \E u \in DOMAIN uploads : Accept(u)
    \/ \E u \in DOMAIN uploads : UploadResolved(u)
    \/ \E u \in DOMAIN uploads : UploadRejected(u)

\* DocumentList beside DocumentUpload
DocumentsNext ==
    \/ \E files \in Batches : HandleUpload(files)
    \/ \E u \in DOMAIN uploads : Accept(u)
    \/ \E u \in DOMAIN uploads : UploadResolved(u)
    \/ \E u \in DOMAIN uploads : UploadRejected(u)
    \/ \E d \in documents : IndexStart(d)
    \/ \E d \in documents : IndexComplete(d)
    \/ \E d \in documents : IndexFail(d)
    \/ \E d \in documents : HandleDelete(d)
    \/ \E c \in deleting.calls : DeleteDocument(c)
    \/ \E c \in deleting.calls : DeleteSettled(c)

(***************************************************************************)
(* SettingsPage (part_002 42-124) and the settings endpoint behind          *)
(* getSettings and updateSettings (api.ts 226-234), by its interface (spec  *)
(* 3, 6).  Of the fields that are not embedding-related llm_model stands    *)
(* for all: the page and the endpoint treat them alike.                     *)
(***************************************************************************)
\* null of a TEXT column and of a string in an update
NullText == "null"

\* embedding_dimensions as configured at first
DefaultDimensions == 1536

\* the values an administrator types
FormValues ==
    [llmModel |-> {"l1", "l2"}, embeddingModel |-> {"e1", "e2"},
     embeddingBaseUrl |-> {"b1", "b2"}, embeddingApiKey |-> {"k1", "k2"},
     embeddingDimensions |-> {"1536", "768"}]

\* the inputs rendered with disabled={hasChunks} (part_002 277-324)
EmbeddingInputs ==
    {"embeddingModel", "embeddingBaseUrl", "embeddingApiKey", "embeddingDimensions"}

\* Number.prototype.toString on the dimensions that occur
toString(n) == CASE n = 1536 -> "1536" [] n = 768 -> "768"

\* parseInt(s, 10) on the strings that occur
parseInt(s) == CASE s = "1536" -> 1536 [] s = "768" -> 768

\* value || '' (part_002 84-92)
orEmpty(v) == IF v = NullText THEN "" ELSE v

\* value || null (part_002 107-115)
orNull(v) == IF v = "" THEN NullText ELSE v

EmptyForm ==
    [llmModel |-> "", embeddingModel |-> "", embeddingBaseUrl |-> "",
     embeddingApiKey |-> "", embeddingDimensions |-> ""]

\* the setters of loadSettings (part_002 84-90)
formOf(row) ==
    [llmModel |-> orEmpty(row.llm_model),
     embeddingModel |-> orEmpty(row.embedding_model),
     embeddingBaseUrl |-> orEmpty(row.embedding_base_url),
     embeddingApiKey |-> orEmpty(row.embedding_api_key),
     embeddingDimensions |-> IF row.embedding_dimensions = NoEmbedding THEN ""
                             ELSE toString(row.embedding_dimensions)]

\* const update of handleSave (part_002 106-116)
updateOf(form) ==
    [llm_model |-> orNull(form.llmModel),
     embedding_model |-> orNull(form.embeddingModel),
     embedding_base_url |-> orNull(form.embeddingBaseUrl),
     embedding_api_key |-> orNull(form.embeddingApiKey),
     embedding_dimensions |-> IF form.embeddingDimensions # ""
                              THEN parseInt(form.embeddingDimensions) ELSE NoEmbedding]

\* the embedding-related fields of a row or an update (part_003 43-46)
embeddingFields(row) ==
    <<row.embedding_model, row.embedding_base_url, row.embedding_api_key,
      row.embedding_dimensions>>

\* an endpoint that takes every update
rejectsNever(stored, update, chs) == FALSE

\* the settings endpoint rejects an update that changes an embedding-related
\* field while a chunk exists (spec 3, 6)
rejects(stored, update, chs) ==
    chs # {} /\ embeddingFields(update) # embeddingFields(stored)

NoRequest == [kind |-> "null", pc |-> "null"]

\* the row of global_settings, and SettingsPage as its first effect leaves it:
\* loadSettings awaits getSettings (part_002 46-58, 73-82)
SettingsInit ==
    /\ settings = [llm_model |-> "l1", embedding_model |-> "e1", embedding_base_url |-> "b1",
                   embedding_api_key |-> "k1", embedding_dimensions |-> DefaultDimensions]
    /\ page = [loading |-> TRUE, saving |-> FALSE, success |-> FALSE, error |-> NoError,
               hasChunks |-> FALSE, form |-> EmptyForm, edits |-> 0, saves |-> 0]
    /\ request = [kind |-> "get", pc |-> "sent"]

\* the settings endpoint answers getSettings: the row and has_chunks
GetSettings ==
    /\ request.kind = "get" /\ request.pc = "sent"
    /\ request' = [kind |-> "get", pc |-> "answered", row |-> settings,
                   has_chunks |-> (chunks # {})]
    /\ UNCHANGED <<settings, page>>
    /\ UNCHANGED <<sseVars, chatVars, uploadVars, docVars, searchVars, fusionVars, rlsVars, realtimeVars, authVars>>

\* await getSettings() resolves: the rest of loadSettings (part_002 83-98)
LoadSettingsDone ==
    /\ request.kind = "get" /\ request.pc = "answered"
    /\ page' = [page EXCEPT !.form = formOf(request.row),
                            !.hasChunks = request.has_chunks, !.loading = FALSE]
    /\ request' = NoRequest
    /\ UNCHANGED settings
    /\ UNCHANGED <<sseVars, chatVars, uploadVars, docVars, searchVars, fusionVars, rlsVars, realtimeVars, authVars>>

\* await getSettings() rejects: catch and finally of loadSettings (part_002 93-98)
LoadSettingsFail ==
    /\ request.kind = "get"
    /\ page' = [page EXCEPT !.error = ErrMessage, !.loading = FALSE]
    /\ request' = NoRequest
    /\ UNCHANGED settings
    /\ UNCHANGED <<sseVars, chatVars, uploadVars, docVars, searchVars, fusionVars, rlsVars, realtimeVars, authVars>>

\* onChange of an input of the form; the embedding inputs are disabled while
\* hasChunks (part_002 183, 211-324)
SetField(field, v) ==
    /\ ~page.loading
    /\ page.edits < MaxEdits
    /\ field \in EmbeddingInputs => ~page.hasChunks
    /\ page' = [page EXCEPT !.form[field] = v, !.edits = @ + 1]
    /\ UNCHANGED <<settings, request>>
    /\ UNCHANGED <<sseVars, chatVars, uploadVars, docVars, searchVars, fusionVars, rlsVars, realtimeVars, authVars>>

\* handleSave up to its await; the button is disabled while saving
\* (part_002 101-117, 380)
HandleSave ==
    /\ ~page.loading
    /\ ~page.saving
    /\ page.saves < MaxSaves
    /\ page' = [page EXCEPT !.saving = TRUE, !.error = NoError, !.success = FALSE,
                            !.saves = @ + 1]
    /\ request' = [kind |-> "put", pc |-> "sent", update |-> updateOf(page.form)]
    /\ UNCHANGED settings
    /\ UNCHANGED <<sseVars, chatVars, uploadVars, docVars, searchVars, fusionVars, rlsVars, realtimeVars, authVars>>

\* the settings endpoint handles the PUT: it rejects the update or stores it
UpdateSettings ==
    /\ request.kind = "put" /\ request.pc = "sent"
    /\ IF rejects(settings, request.update, chunks)
       THEN /\ request' = [request EXCEPT !.pc = "rejected"]
            /\ UNCHANGED settings
       ELSE /\ request' = [request EXCEPT !.pc = "stored"]
            /\ settings' = request.update
    /\ UNCHANGED page
    /\ UNCHANGED <<sseVars, chatVars, uploadVars, docVars, searchVars, fusionVars, rlsVars, realtimeVars, authVars>>

\* await updateSettings(update) resolves: the rest of handleSave (part_002 118, 122)
SaveDone ==
    /\ request.kind = "put" /\ request.pc = "stored"
    /\ page' = [page EXCEPT !.success = TRUE, !.saving = FALSE]
    /\ request' = NoRequest
    /\ UNCHANGED settings
    /\ UNCHANGED <<sseVars, chatVars, uploadVars, docVars, searchVars, fusionVars, rlsVars, realtimeVars, authVars>>

\* await updateSettings(update) rejects: catch and finally of handleSave
\* (part_002 119-123)
SaveFail ==
    /\ request.kind = "put"
    /\ page' = [page EXCEPT !.error = ErrMessage, !.saving = FALSE]
    /\ request' = NoRequest
    /\ UNCHANGED settings
    /\ UNCHANGED <<sseVars, chatVars, uploadVars, docVars, searchVars, fusionVars, rlsVars, realtimeVars, authVars>>

\* the indexer and DocumentList at work beside SettingsPage
SettingsNext ==
    \/ GetSettings
    \/ LoadSettingsDone
    \/ LoadSettingsFail
    \/ \E field \in DOMAIN FormValues : \E v \in FormValues[field] : SetField(field, v)
    \/ HandleSave
    \/ UpdateSettings
    \/ SaveDone
    \/ SaveFail
    \/ \E d \in documents : IndexStart(d)
    \/ \E d \in documents : IndexComplete(d)
    \/ \E d \in documents : IndexFail(d)
    \/ \E d \in documents : HandleDelete(d)
    \/ \E c \in deleting.calls : DeleteDocument(c)
    \/ \E c \in deleting.calls : DeleteSettled(c)

(***************************************************************************)
(* The retrieval functions match_chunks (part_003 87-108) and               *)
(* keyword_search_chunks (module6 migration 28-57), run on tables of chunks *)
(* drawn from a small universe.  A vector is a point 1, 2 or 3 and <=> is   *)
(* their distance; similarities and thresholds are in tenths.               *)
(***************************************************************************)
Users == {"u1", "u2"}

\* SQL NULL of a uuid
NullUuid == "NULL"

\* jsonb objects as sets of key-value pairs, and SQL NULL of a jsonb
Json(pairs) == [isNull |-> FALSE, v |-> pairs]
NullJson == [isNull |-> TRUE, v |-> {}]

Metadatas == {Json({}), Json({<<"document_type", "report">>}),
              Json({<<"document_type", "memo">>}), NullJson}

Filters == {NullJson, Json({}), Json({<<"document_type", "report">>})}

Contents == {<<"cat">>, <<"the", "dogs">>, <<"the">>}

Queries == {<<"cats">>, <<"the">>, <<"dog", "the", "cat">>}

\* the english configuration on the words that occur: stop words give no
\* lexeme, the others their stem
lexeme(word) ==
    CASE word = "the" -> "" [] word \in {"cat", "cats"} -> "cat"
      [] word \in {"dog", "dogs"} -> "dog"

\* to_tsvector('english', text): the lexemes with their positions
to_tsvector(text) ==
    {<<lexeme(text[k]), k>> : k \in {j \in DOMAIN text : lexeme(text[j]) # ""}}

\* websearch_to_tsquery('english', text) of unquoted words: the conjunction
\* of their lexemes; no lexeme gives the empty tsquery
websearch_to_tsquery(text) ==
    {lexeme(text[k]) : k \in {j \in DOMAIN text : lexeme(text[j]) # ""}}

\* search_vector @@ tsq for a conjunction; the empty tsquery matches nothing
matches(search_vector, tsq) ==
    tsq # {} /\ \A l \in tsq : \E e \in search_vector : e[1] = l

\* stands for ts_rank_cd(search_vector, tsq): the more of the vector the
\* query covers the higher, in tenths
ts_rank_cd(search_vector, tsq) ==
    (10 * Cardinality({e \in search_vector : e[1] \in tsq})) \div Cardinality(search_vector)

\* the vector the embedder gives a text
embed(text) == CASE text = <<"cat">> -> 1 [] text = <<"the", "dogs">> -> 2 [] OTHER -> 3

\* a <=> b in tenths
distance(a, b) == 5 * (IF a < b THEN b - a ELSE a - b)

\* trigger chunks_search_vector_update (module6 migration 11-21)
chunks_search_vector_update(new) ==
    [new EXCEPT !.search_vector = to_tsvector(new.content)]

\* the values of a row of chunks but for its id (migration 22-31, module6 5)
RowValues ==
    {chunks_search_vector_update(
         [user_id |-> u, content |-> c, embedding |-> embed(c), metadata |-> md,
          search_vector |-> {}]) :
        u \in Users, c \in Contents, md \in Metadatas}

\* the tsvector values a statement may write
SearchVectors == {to_tsvector(c) : c \in Contents}

\* the rows a statement may give: any content with any search_vector
StatementRows ==
    {[user_id |-> u, content |-> c, embedding |-> embed(c), metadata |-> md,
      search_vector |-> sv] :
        u \in Users, c \in Contents, md \in {Json({}), NullJson}, sv \in SearchVectors}

\* the columns an UPDATE may assign
UpdateColumns == {"content", "metadata", "search_vector"}

\* trg_chunks_search_vector fires BEFORE INSERT OR UPDATE OF content: on every
\* insert, and on an update whose SET list names content
triggerFires(op, columns) ==
    op = "INSERT" \/ (op = "UPDATE" /\ "content" \in columns)

\* the tables: rows by id
Tables == UNION {[1..n -> RowValues] : n \in 0..MaxRows}

\* a = b of SQL is true
sqlEquals(a, b) == a # NullUuid /\ b # NullUuid /\ a = b

\* metadata @> filter is true
containsJson(metadata, filter) ==
    ~metadata.isNull /\ ~filter.isNull /\ filter.v \subseteq metadata.v

\* a filter clause that keeps the chunks without metadata
metadataClausePermissive(metadata, p_metadata_filter) ==
    p_metadata_filter.isNull \/ metadata.isNull \/ containsJson(metadata, p_metadata_filter)

\* (p_metadata_filter IS NULL OR c.metadata @> p_metadata_filter) is true
\* (part_003 104, module6 migration 53)
metadataClause(metadata, p_metadata_filter) ==
    p_metadata_filter.isNull \/ containsJson(metadata, p_metadata_filter)

\* a WHERE clause without the owner
ownerClauseAny(user_id, p_user_id) == TRUE

\* c.user_id = p_user_id is true (part_003 102, module6 migration 51)
ownerClause(user_id, p_user_id) == sqlEquals(user_id, p_user_id)

\* ORDER BY key LIMIT count over the rows ids of a table: every sequence the
\* statement may return, ties in any order
orderLimit(ids, key, count) ==
    LET n == IF Cardinality(ids) < count THEN Cardinality(ids) ELSE count
    IN {s \in [1..n -> ids] :
          /\ \A i \in 1..n : \A j \in 1..n : i < j => s[i] # s[j] /\ key[s[i]] <= key[s[j]]
          /\ \A i \in 1..n : \A o \in ids \ {s[k] : k \in 1..n} : key[s[i]] <= key[o]}

\* match_chunks (part_003 87-108): the sequences of rows it may return
match_chunks(t, query_embedding, match_threshold, match_count, p_user_id, p_metadata_filter) ==
    LET similarity(i) == 10 - distance(t[i].embedding, query_embedding)
        where == {i \in DOMAIN t :
                    /\ ownerClause(t[i].user_id, p_user_id)
                    /\ similarity(i) > match_threshold
                    /\ metadataClause(t[i].metadata, p_metadata_filter)}
        key == [i \in where |-> distance(t[i].embedding, query_embedding)]
        row(i) == [id |-> i, content |-> t[i].content, metadata |-> t[i].metadata,
                   similarity |-> similarity(i)]
    IN {[k \in DOMAIN s |-> row(s[k])] : s \in orderLimit(where, key, match_count)}

\* a keyword search that takes a query without tokens for no restriction
keywordSearchUnrestricted(t, p_query, p_match_count, p_user_id, p_metadata_filter) ==
    LET tsq == websearch_to_tsquery(p_query)
        rank(i) == IF tsq = {} THEN 0 ELSE ts_rank_cd(t[i].search_vector, tsq)
        where == {i \in DOMAIN t :
                    /\ ownerClause(t[i].user_id, p_user_id)
                    /\ tsq = {} \/ matches(t[i].search_vector, tsq)
                    /\ metadataClause(t[i].metadata, p_metadata_filter)}
        key == [i \in where |-> 0 - rank(i)]
        row(i) == [id |-> i, content |-> t[i].content, metadata |-> t[i].metadata,
                   rank |-> rank(i)]
    IN {[k \in DOMAIN s |-> row(s[k])] : s \in orderLimit(where, key, p_match_count)}

\* keyword_search_chunks (module6 migration 28-57): the sequences of rows it
\* may return
keyword_search_chunks(t, p_query, p_match_count, p_user_id, p_metadata_filter) ==
    LET tsq == websearch_to_tsquery(p_query)
        where == {i \in DOMAIN t :
                    /\ ownerClause(t[i].user_id, p_user_id)
                    /\ matches(t[i].search_vector, tsq)
                    /\ metadataClause(t[i].metadata, p_metadata_filter)}
        key == [i \in where |-> 0 - ts_rank_cd(t[i].search_vector, tsq)]
        row(i) == [id |-> i, content |-> t[i].content, metadata |-> t[i].metadata,
                   rank |-> ts_rank_cd(t[i].search_vector, tsq)]
    IN IF tsq = {} THEN {<<>>}
       ELSE {[k \in DOMAIN s |-> row(s[k])] : s \in orderLimit(where, key, p_match_count)}

NoCall == [fn |-> "null"]

\* the arguments of the calls
Thresholds == {3, 7}
Counts == {1, 2}

SearchInit ==
    /\ searchTable \in Tables
    /\ searchCall = NoCall
    /\ searchResult = <<>>

\* a call of match_chunks returns; a behaviour is one call on one table
MatchChunks(q, threshold, count, uid, filter) ==
    /\ searchCall = NoCall
    /\ searchCall' = [fn |-> "match_chunks", query_embedding |-> q,
                      match_threshold |-> threshold, match_count |-> count,
                      p_user_id |-> uid, p_metadata_filter |-> filter]
    /\ searchResult' \in match_chunks(searchTable, q, threshold, count, uid, filter)
    /\ UNCHANGED searchTable
    /\ UNCHANGED <<sseVars, chatVars, uploadVars, docVars, settingsVars, fusionVars, rlsVars, realtimeVars, authVars>>

\* a call of keyword_search_chunks returns; a behaviour is one call on one table
KeywordSearchChunks(q, count, uid, filter) ==
    /\ searchCall = NoCall
    /\ searchCall' = [fn |-> "keyword_search_chunks", p_query |-> q,
                      p_match_count |-> count, p_user_id |-> uid,
                      p_metadata_filter |-> filter]
    /\ searchResult' \in keyword_search_chunks(searchTable, q, count, uid, filter)
    /\ UNCHANGED searchTable
    /\ UNCHANGED <<sseVars, chatVars, uploadVars, docVars, settingsVars, fusionVars, rlsVars, realtimeVars, authVars>>

\* INSERT INTO chunks of row new
ChunkInsert(new) ==
    /\ Len(searchTable) < MaxRows
    /\ searchTable' = Append(searchTable,
           IF triggerFires("INSERT", {}) THEN chunks_search_vector_update(new) ELSE new)
    /\ UNCHANGED <<searchCall, searchResult>>
    /\ UNCHANGED <<sseVars, chatVars, uploadVars, docVars, settingsVars, fusionVars, rlsVars, realtimeVars, authVars>>

\* UPDATE chunks SET columns = the values of given WHERE id = i
ChunkUpdate(i, columns, given) ==
    /\ i \in DOMAIN searchTable
    /\ columns # {}
    /\ LET assigned == [f \in DOMAIN searchTable[i] |->
                           IF f \in columns THEN given[f] ELSE searchTable[i][f]]
       IN searchTable' = [searchTable EXCEPT ![i] =
              IF triggerFires("UPDATE", columns) THEN chunks_search_vector_update(assigned)
              ELSE assigned]
    /\ UNCHANGED <<searchCall, searchResult>>
    /\ UNCHANGED <<sseVars, chatVars, uploadVars, docVars, settingsVars, fusionVars, rlsVars, realtimeVars, authVars>>

\* the statements that write chunks
ChunksNext ==
    \/ \E new \in StatementRows : ChunkInsert(new)
    \/ \E i \in 1..MaxRows : \E columns \in SUBSET UpdateColumns :
         \E given \in StatementRows : ChunkUpdate(i, columns, given)

SearchNext ==
    \/ \E q \in {embed(c) : c \in Contents} : \E threshold \in Thresholds :
         \E count \in Counts : \E uid \in Users \cup {NullUuid} : \E filter \in Filters :
            MatchChunks(q, threshold, count, uid, filter)
    \/ \E q \in Queries : \E count \in Counts :
         \E uid \in Users \cup {NullUuid} : \E filter \in Filters :
            KeywordSearchChunks(q, count, uid, filter)

(***************************************************************************)
(* Reciprocal Rank Fusion of the Hybrid Retriever, by its interface (spec   *)
(* 4.6).  A rank list is a sequence of chunk ids, best first; scores are    *)
(* multiples of 1 / Denominator, so that they are integers.                 *)
(***************************************************************************)
\* the damping constant k
RrfK == 60

Results == 1..MaxResults

\* the rank lists: sequences of results without repetition
RankLists ==
    UNION {{l \in [1..n -> Results] : \A i \in 1..n : \A j \in 1..n : l[i] = l[j] => i = j} :
              n \in 0..MaxResults}

RECURSIVE productTo(_)
\* (k + 1) * ... * (k + n)
productTo(n) == IF n = 0 THEN 1 ELSE (RrfK + n) * productTo(n - 1)

Denominator == productTo(MaxResults)

present(list, x) == \E r \in DOMAIN list : list[r] = x

\* the 1-based rank of x in a list that holds it
rankIn(list, x) == CHOOSE r \in DOMAIN list : list[r] = x

\* 1 / (k + rank_in_that_list), or nothing for a list without x
term(list, x) == IF present(list, x) THEN Denominator \div (RrfK + rankIn(list, x)) ELSE 0

\* a fusion that averages the terms of a result present in both lists
fusedScoreAveraged(lists, x) ==
    IF present(lists.vector, x) /\ present(lists.keyword, x)
    THEN (term(lists.vector, x) + term(lists.keyword, x)) \div 2
    ELSE term(lists.vector, x) + term(lists.keyword, x)

\* the fused score: the sum over the lists in which x appears
fusedScore(lists, x) == term(lists.vector, x) + term(lists.keyword, x)

\* the individual score of x in a list falls with its rank; nothing if absent
individualScore(list, x) == IF present(list, x) THEN MaxResults + 1 - rankIn(list, x) ELSE 0

\* the higher of the two individual scores
bestScore(lists, x) ==
    IF individualScore(lists.vector, x) > individualScore(lists.keyword, x)
    THEN individualScore(lists.vector, x) ELSE individualScore(lists.keyword, x)

\* y goes before x: by fused score, then by the higher individual score, then
\* by chunk id
before(lists, y, x) ==
    \/ fusedScore(lists, y) > fusedScore(lists, x)
    \/ /\ fusedScore(lists, y) = fusedScore(lists, x)
       /\ \/ bestScore(lists, y) > bestScore(lists, x)
          \/ bestScore(lists, y) = bestScore(lists, x) /\ y < x

\* the results of both lists
pool(lists) ==
    {lists.vector[r] : r \in DOMAIN lists.vector} \cup {lists.keyword[r] : r \in DOMAIN lists.keyword}

\* the 1-based position of x in the fused order
position(lists, x) == 1 + Cardinality({y \in pool(lists) : before(lists, y, x)})

\* the fused order
fuse(lists) ==
    [p \in 1..Cardinality(pool(lists)) |-> CHOOSE x \in pool(lists) : position(lists, x) = p]

NotFused == <<0>>

FusionInit ==
    /\ rankLists \in [vector : RankLists, keyword : RankLists]
    /\ fused = NotFused

\* the Hybrid Retriever fuses the two rank lists
Fuse ==
    /\ fused = NotFused
    /\ fused' = fuse(rankLists)
    /\ UNCHANGED rankLists
    /\ UNCHANGED <<sseVars, chatVars, uploadVars, docVars, settingsVars, searchVars, rlsVars, realtimeVars, authVars>>

FusionNext == Fuse

(***************************************************************************)
(* Row-level security of threads, messages, documents and chunks, as        *)
(* PostgreSQL applies the policies of the migrations to the statements of a *)
(* role that is subject to it (anon, authenticated).                        *)
(***************************************************************************)
RlsTables == {"threads", "messages", "documents", "chunks"}

\* ALTER TABLE ... ENABLE ROW LEVEL SECURITY (001_initial_schema 33-34,
\* migration 42-43)
RlsEnabled == {"threads", "messages", "documents", "chunks"}

\* the policies: using and check say whether the policy has a USING and a
\* WITH CHECK clause; the expression is always auth.uid() = user_id
\* (001_initial_schema 37-64, migration 45-46)
Policies ==
    {[table |-> "threads", cmd |-> "SELECT", using |-> TRUE, check |-> FALSE],
     [table |-> "threads", cmd |-> "INSERT", using |-> FALSE, check |-> TRUE],
     [table |-> "threads", cmd |-> "UPDATE", using |-> TRUE, check |-> FALSE],
     [table |-> "threads", cmd |-> "DELETE", using |-> TRUE, check |-> FALSE],
     [table |-> "messages", cmd |-> "SELECT", using |-> TRUE, check |-> FALSE],
     [table |-> "messages", cmd |-> "INSERT", using |-> FALSE, check |-> TRUE],
     [table |-> "messages", cmd |-> "DELETE", using |-> TRUE, check |-> FALSE],
     [table |-> "documents", cmd |-> "ALL", using |-> TRUE, check |-> FALSE],
     [table |-> "chunks", cmd |-> "ALL", using |-> TRUE, check |-> FALSE]}

\* a policy expression that is true of every row
policyExpressionTrue(uid, row) == TRUE

\* auth.uid() = user_id is true
policyExpression(uid, row) == sqlEquals(uid, row.user_id)

\* the policies that apply to a command on a table
applicable(table, cmd) == {p \in Policies : p.table = table /\ p.cmd \in {cmd, "ALL"}}

\* the existing row passes the USING clause of some permissive policy
usingPasses(table, cmd, uid, row) ==
    table \in RlsEnabled =>
        \E p \in applicable(table, cmd) : p.using /\ policyExpression(uid, row)

\* the new row passes WITH CHECK of some permissive policy; a policy without
\* WITH CHECK checks its USING clause
checkPasses(table, cmd, uid, row) ==
    table \in RlsEnabled =>
        \E p \in applicable(table, cmd) : (p.check \/ p.using) /\ policyExpression(uid, row)

\* the rows that may be stored: a table, an owner and a value
RlsRowValues == [table : RlsTables, user_id : Users, value : {"x", "y"}]

NoStatement == [cmd |-> "null"]

RlsInit ==
    /\ rlsRows \in {rows \in SUBSET RlsRowValues : Cardinality(rows) <= MaxRlsRows}
    /\ rlsLast = NoStatement

\* SELECT * FROM table, run by uid: the rows that pass USING
RlsSelect(uid, table) ==
    /\ rlsLast' = [cmd |-> "SELECT", uid |-> uid, table |-> table,
                   returned |-> {r \in rlsRows : r.table = table
                                                 /\ usingPasses(table, "SELECT", uid, r)}]
    /\ UNCHANGED rlsRows
    /\ UNCHANGED <<sseVars, chatVars, uploadVars, docVars, settingsVars, searchVars, fusionVars, realtimeVars, authVars>>

\* INSERT of row new, run by uid: an error unless the row passes WITH CHECK
RlsInsert(uid, new) ==
    /\ new \notin rlsRows
    /\ Cardinality(rlsRows) < MaxRlsRows
    /\ IF checkPasses(new.table, "INSERT", uid, new)
       THEN /\ rlsRows' = rlsRows \cup {new}
            /\ rlsLast' = [cmd |-> "INSERT", uid |-> uid, row |-> new, ok |-> TRUE]
       ELSE /\ UNCHANGED rlsRows
            /\ rlsLast' = [cmd |-> "INSERT", uid |-> uid, row |-> new, ok |-> FALSE]
    /\ UNCHANGED <<sseVars, chatVars, uploadVars, docVars, settingsVars, searchVars, fusionVars, realtimeVars, authVars>>

\* UPDATE of row old to new, run by uid: the row is not seen unless it passes
\* USING, and it is an error unless the new row passes WITH CHECK
RlsUpdate(uid, old, new) ==
    /\ old \in rlsRows
    /\ new.table = old.table
    /\ new \notin rlsRows
    /\ IF usingPasses(old.table, "UPDATE", uid, old) /\ checkPasses(old.table, "UPDATE", uid, new)
       THEN /\ rlsRows' = (rlsRows \ {old}) \cup {new}
            /\ rlsLast' = [cmd |-> "UPDATE", uid |-> uid, row |-> old, ok |-> TRUE]
       ELSE /\ UNCHANGED rlsRows
            /\ rlsLast' = [cmd |-> "UPDATE", uid |-> uid, row |-> old, ok |-> FALSE]
    /\ UNCHANGED <<sseVars, chatVars, uploadVars, docVars, settingsVars, searchVars, fusionVars, realtimeVars, authVars>>

\* DELETE of row old, run by uid: the row is not seen unless it passes USING
RlsDelete(uid, old) ==
    /\ old \in rlsRows
    /\ IF usingPasses(old.table, "DELETE", uid, old)
       THEN /\ rlsRows' = rlsRows \ {old}
            /\ rlsLast' = [cmd |-> "DELETE", uid |-> uid, row |-> old, ok |-> TRUE]
       ELSE /\ UNCHANGED rlsRows
            /\ rlsLast' = [cmd |-> "DELETE", uid |-> uid, row |-> old, ok |-> FALSE]
    /\ UNCHANGED <<sseVars, chatVars, uploadVars, docVars, settingsVars, searchVars, fusionVars, realtimeVars, authVars>>

RlsNext ==
    \/ \E uid \in Users \cup {NullUuid} : \E table \in RlsTables : RlsSelect(uid, table)
    \/ \E uid \in Users \cup {NullUuid} : \E new \in RlsRowValues : RlsInsert(uid, new)
    \/ \E uid \in Users \cup {NullUuid} : \E old \in rlsRows : \E new \in RlsRowValues :
         RlsUpdate(uid, old, new)
    \/ \E uid \in Users \cup {NullUuid} : \E old \in rlsRows : RlsDelete(uid, old)

(***************************************************************************)
(* useRealtimeDocuments (useRealtimeDocuments.ts 6-65) for a signed-in     *)
(* user, with the documents table and its realtime publication.            *)
(***************************************************************************)
RealtimeInit ==
    /\ rtServer = {}
    /\ rtEvents = <<>>
    /\ rtFetches = <<>>
    /\ rtDocuments = <<>>
    /\ rtLoading = TRUE
    /\ rtNextId = 1

\* the answer of GET /documents: the rows, newest first
listing(rows) ==
    [k \in 1..Cardinality(rows) |->
        CHOOSE r \in rows : Cardinality({q \in rows : q.id > r.id}) = k - 1]

\* setDocuments(prev => [payload.new, ...prev]) (useRealtimeDocuments.ts 41)
onInsert(prev, new) == <<new>> \o prev

\* prev.map(doc => doc.id === payload.new.id ? payload.new : doc) (43-49)
onUpdate(prev, new) ==
    [k \in DOMAIN prev |-> IF prev[k].id = new.id THEN new ELSE prev[k]]

\* prev.filter(doc => doc.id !== payload.old.id) (51-53)
onDelete(prev, old) == SelectSeq(prev, LAMBDA doc : doc.id # old.id)

\* a document row is inserted (upload endpoint); the change is published
RtInserted ==
    /\ rtNextId <= MaxRtDocuments
    /\ LET row == [id |-> rtNextId, status |-> "pending"]
       IN /\ rtServer' = rtServer \cup {row}
          /\ rtEvents' = Append(rtEvents, [eventType |-> "INSERT", new |-> row, old |-> row])
    /\ rtNextId' = rtNextId + 1
    /\ UNCHANGED <<rtFetches, rtDocuments, rtLoading>>
    /\ UNCHANGED <<sseVars, chatVars, uploadVars, docVars, settingsVars, searchVars, fusionVars, rlsVars, authVars>>

\* a document row is updated (indexer); the change is published
RtUpdated(d) ==
    /\ d \in rtServer
    /\ d.status = "pending"
    /\ LET row == [d EXCEPT !.status = "completed"]
       IN /\ rtServer' = (rtServer \ {d}) \cup {row}
          /\ rtEvents' = Append(rtEvents, [eventType |-> "UPDATE", new |-> row, old |-> d])
    /\ UNCHANGED <<rtFetches, rtDocuments, rtLoading, rtNextId>>
    /\ UNCHANGED <<sseVars, chatVars, uploadVars, docVars, settingsVars, searchVars, fusionVars, rlsVars, authVars>>

\* a document row is deleted (delete endpoint); the change is published
RtDeleted(d) ==
    /\ d \in rtServer
    /\ rtServer' = rtServer \ {d}
    /\ rtEvents' = Append(rtEvents, [eventType |-> "DELETE", new |-> d, old |-> d])
    /\ UNCHANGED <<rtFetches, rtDocuments, rtLoading, rtNextId>>
    /\ UNCHANGED <<sseVars, chatVars, uploadVars, docVars, settingsVars, searchVars, fusionVars, rlsVars, authVars>>

\* fetchDocuments is called, by the mount effect or as refetch after an upload
\* (useRealtimeDocuments.ts 10-13, 22-24; ChatPage.tsx 185)
FetchDocuments ==
    /\ Len(rtFetches) < MaxFetches
    /\ rtFetches' = Append(rtFetches, [pc |-> "sent", docs |-> <<>>])
    /\ UNCHANGED <<rtServer, rtEvents, rtDocuments, rtLoading, rtNextId>>
    /\ UNCHANGED <<sseVars, chatVars, uploadVars, docVars, settingsVars, searchVars, fusionVars, rlsVars, authVars>>

\* the documents endpoint answers call f with the rows it reads now
ListDocumentsAnswered(f) ==
    /\ rtFetches[f].pc = "sent"
    /\ rtFetches' = [rtFetches EXCEPT ![f] = [pc |-> "answered", docs |-> listing(rtServer)]]
    /\ UNCHANGED <<rtServer, rtEvents, rtDocuments, rtLoading, rtNextId>>
    /\ UNCHANGED <<sseVars, chatVars, uploadVars, docVars, settingsVars, searchVars, fusionVars, rlsVars, authVars>>

\* await listDocuments() resolves: setDocuments(docs), setLoading(false) (13-18)
FetchDocumentsResolved(f) ==
    /\ rtFetches[f].pc = "answered"
    /\ rtDocuments' = rtFetches[f].docs
    /\ rtLoading' = FALSE
    /\ rtFetches' = [rtFetches EXCEPT ![f].pc = "done"]
    /\ UNCHANGED <<rtServer, rtEvents, rtNextId>>
    /\ UNCHANGED <<sseVars, chatVars, uploadVars, docVars, settingsVars, searchVars, fusionVars, rlsVars, authVars>>

\* await listDocuments() rejects: the list is kept, setLoading(false) (15-18)
FetchDocumentsRejected(f) ==
    /\ rtFetches[f].pc \in {"sent", "answered"}
    /\ rtLoading' = FALSE
    /\ rtFetches' = [rtFetches EXCEPT ![f].pc = "failed"]
    /\ UNCHANGED <<rtServer, rtEvents, rtDocuments, rtNextId>>
    /\ UNCHANGED <<sseVars, chatVars, uploadVars, docVars, settingsVars, searchVars, fusionVars, rlsVars, authVars>>

\* the channel delivers the oldest event to the payload handler (39-55)
RealtimeEvent ==
    /\ rtEvents # <<>>
    /\ LET payload == Head(rtEvents)
       IN rtDocuments' =
            CASE payload.eventType = "INSERT" -> onInsert(rtDocuments, payload.new)
              [] payload.eventType = "UPDATE" -> onUpdate(rtDocuments, payload.new)
              [] payload.eventType = "DELETE" -> onDelete(rtDocuments, payload.old)
    /\ rtEvents' = Tail(rtEvents)
    /\ UNCHANGED <<rtServer, rtFetches, rtLoading, rtNextId>>
    /\ UNCHANGED <<sseVars, chatVars, uploadVars, docVars, settingsVars, searchVars, fusionVars, rlsVars, authVars>>

RealtimeNext ==
    \/ RtInserted
    \/ \E d \in rtServer : RtUpdated(d)
    \/ \E d \in rtServer : RtDeleted(d)
    \/ FetchDocuments
    \/ \E f \in DOMAIN rtFetches : ListDocumentsAnswered(f)
    \/ \E f \in DOMAIN rtFetches : FetchDocumentsResolved(f)
    \/ \E f \in DOMAIN rtFetches : FetchDocumentsRejected(f)
    \/ RealtimeEvent

(***************************************************************************)
(* useAuth (useRealtimeDocuments.ts 73-157) with the Supabase auth client  *)
(* and the /auth/me endpoint.  A session is named by its user.             *)
(***************************************************************************)
NoSession == "null"

AuthUsers == {"admin", "member"}

\* the users /auth/me reports as is_admin
AdminUsers == {"admin"}

\* useState of useAuth (useRealtimeDocuments.ts 74-77)
AuthInit ==
    /\ auth = [user |-> NoSession, session |-> NoSession, loading |-> TRUE, isAdmin |-> FALSE]
    /\ sbSession = NoSession
    /\ authEvents = <<>>
    /\ adminRequests = <<>>
    /\ lookup = "pending"
    /\ signOuts = 0
    /\ authOps = 0

\* setSession(session); setUser(session?.user ?? null), then fetchAdminStatus
\* up to its await when the session has a token (100-104, 112-116)
withSession(a, requests, session) ==
    [auth |-> [a EXCEPT !.session = session, !.user = session],
     adminRequests |-> IF session # NoSession
                       THEN Append(requests, [pc |-> "pending", who |-> session])
                       ELSE requests]

\* supabase.auth.getSession() resolves: the then-callback (99-106)
GetSessionResolved ==
    /\ lookup = "pending"
    /\ lookup' = "done"
    /\ LET r == withSession(auth, adminRequests, sbSession)
       IN /\ adminRequests' = r.adminRequests
          /\ auth' = IF sbSession # NoSession THEN r.auth
                     ELSE [r.auth EXCEPT !.loading = FALSE]
    /\ UNCHANGED <<sbSession, authEvents, signOuts, authOps>>
    /\ UNCHANGED <<sseVars, chatVars, uploadVars, docVars, settingsVars, searchVars, fusionVars, rlsVars, realtimeVars>>

\* the onAuthStateChange callback handles the oldest event (111-120)
AuthStateChange ==
    /\ authEvents # <<>>
    /\ authEvents' = Tail(authEvents)
    /\ LET r == withSession(auth, adminRequests, Head(authEvents).session)
       IN /\ adminRequests' = r.adminRequests
          /\ auth' = IF Head(authEvents).session # NoSession THEN r.auth
                     ELSE [r.auth EXCEPT !.isAdmin = FALSE, !.loading = FALSE]
    /\ UNCHANGED <<sbSession, lookup, signOuts, authOps>>
    /\ UNCHANGED <<sseVars, chatVars, uploadVars, docVars, settingsVars, searchVars, fusionVars, rlsVars, realtimeVars>>

\* /auth/me answers call r with response.ok; the rest of fetchAdminStatus
\* and of its caller (87-89, 105, 119)
AdminStatusOk(r) ==
    /\ adminRequests[r].pc = "pending"
    /\ adminRequests' = [adminRequests EXCEPT ![r].pc = "done"]
    /\ auth' = [auth EXCEPT !.isAdmin = adminRequests[r].who \in AdminUsers,
                            !.loading = FALSE]
    /\ UNCHANGED <<sbSession, authEvents, lookup, signOuts, authOps>>
    /\ UNCHANGED <<sseVars, chatVars, uploadVars, docVars, settingsVars, searchVars, fusionVars, rlsVars, realtimeVars>>

\* the response is not ok, or fetch rejects (90-95, 105, 119)
AdminStatusNotOk(r) ==
    /\ adminRequests[r].pc = "pending"
    /\ adminRequests' = [adminRequests EXCEPT ![r].pc = "done"]
    /\ auth' = [auth EXCEPT !.isAdmin = FALSE, !.loading = FALSE]
    /\ UNCHANGED <<sbSession, authEvents, lookup, signOuts, authOps>>
    /\ UNCHANGED <<sseVars, chatVars, uploadVars, docVars, settingsVars, searchVars, fusionVars, rlsVars, realtimeVars>>

\* signIn (125-131): the client gets a session and emits SIGNED_IN
SignIn(u) ==
    /\ authOps < MaxAuthOps
    /\ sbSession = NoSession
    /\ sbSession' = u
    /\ authEvents' = Append(authEvents, [event |-> "SIGNED_IN", session |-> u])
    /\ authOps' = authOps + 1
    /\ UNCHANGED <<auth, adminRequests, lookup, signOuts>>
    /\ UNCHANGED <<sseVars, chatVars, uploadVars, docVars, settingsVars, searchVars, fusionVars, rlsVars, realtimeVars>>

\* the client refreshes the token of its session and emits TOKEN_REFRESHED
TokenRefreshed ==
    /\ authOps < MaxAuthOps
    /\ sbSession # NoSession
    /\ authEvents' = Append(authEvents, [event |-> "TOKEN_REFRESHED", session |-> sbSession])
    /\ authOps' = authOps + 1
    /\ UNCHANGED <<auth, sbSession, adminRequests, lookup, signOuts>>
    /\ UNCHANGED <<sseVars, chatVars, uploadVars, docVars, settingsVars, searchVars, fusionVars, rlsVars, realtimeVars>>

\* signOut up to its await (141-142): the client drops the session and emits
\* SIGNED_OUT
SignOutCalled ==
    /\ authOps < MaxAuthOps
    /\ sbSession # NoSession
    /\ sbSession' = NoSession
    /\ authEvents' = Append(authEvents, [event |-> "SIGNED_OUT", session |-> NoSession])
    /\ signOuts' = signOuts + 1
    /\ authOps' = authOps + 1
    /\ UNCHANGED <<auth, adminRequests, lookup>>
    /\ UNCHANGED <<sseVars, chatVars, uploadVars, docVars, settingsVars, searchVars, fusionVars, rlsVars, realtimeVars>>

\* supabase.auth.signOut() resolves without error: setIsAdmin(false) (143-144)
SignOutResolved ==
    /\ signOuts > 0
    /\ signOuts' = signOuts - 1
    /\ auth' = [auth EXCEPT !.isAdmin = FALSE]
    /\ UNCHANGED <<sbSession, authEvents, adminRequests, lookup, authOps>>
    /\ UNCHANGED <<sseVars, chatVars, uploadVars, docVars, settingsVars, searchVars, fusionVars, rlsVars, realtimeVars>>

AuthNext ==
    \/ GetSessionResolved
    \/ AuthStateChange
    \/ \E r \in DOMAIN adminRequests : AdminStatusOk(r)
    \/ \E r \in DOMAIN adminRequests : AdminStatusNotOk(r)
    \/ \E u \in AuthUsers : SignIn(u)
    \/ TokenRefreshed
    \/ SignOutCalled
    \/ SignOutResolved

Init ==
    /\ ChatInit /\ SseInit /\ UploadInit /\ SettingsInit
    /\ rlsRows = {} /\ rlsLast = NoStatement
    /\ RealtimeInit
    /\ AuthInit
    /\ searchTable = <<>> /\ searchCall = NoCall /\ searchResult = <<>>
    /\ rankLists = [vector |-> <<>>, keyword |-> <<>>] /\ fused = NotFused

\* any table of chunks before a call of a retrieval function
AnyTableInit ==
    /\ ChatInit /\ SseInit /\ UploadInit /\ SettingsInit /\ SearchInit
    /\ rankLists = [vector |-> <<>>, keyword |-> <<>>] /\ fused = NotFused
    /\ rlsRows = {} /\ rlsLast = NoStatement
    /\ RealtimeInit
    /\ AuthInit

\* any two rank lists before fusion
AnyListsInit ==
    /\ ChatInit /\ SseInit /\ UploadInit /\ SettingsInit /\ FusionInit
    /\ searchTable = <<>> /\ searchCall = NoCall /\ searchResult = <<>>
    /\ rlsRows = {} /\ rlsLast = NoStatement
    /\ RealtimeInit
    /\ AuthInit

\* any rows of the tables under row-level security
AnyRowsInit ==
    /\ ChatInit /\ SseInit /\ UploadInit /\ SettingsInit /\ RlsInit
    /\ RealtimeInit
    /\ AuthInit
    /\ searchTable = <<>> /\ searchCall = NoCall /\ searchResult = <<>>
    /\ rankLists = [vector |-> <<>>, keyword |-> <<>>] /\ fused = NotFused

\* the state after an upload of one file has ended, its Document still pending
OneDocumentInit ==
    /\ ChatInit /\ SseInit /\ SettingsInit
    /\ searchTable = <<>> /\ searchCall = NoCall /\ searchResult = <<>>
    /\ rankLists = [vector |-> <<>>, keyword |-> <<>>] /\ fused = NotFused
    /\ rlsRows = {} /\ rlsLast = NoStatement
    /\ RealtimeInit
    /\ AuthInit
    /\ uploading = FALSE
    /\ uploadError = NoError
    /\ info = NoInfo
    /\ uploads = <<[files |-> <<File(<<"a", "txt">>, 1, "v1")>>, k |-> 1,
                    skippedFiles |-> <<>>, pc |-> "done", skipped |-> FALSE, replaced |-> 0]>>
    /\ documents = {newDocument(1, Owner, File(<<"a", "txt">>, 1, "v1"))}
    /\ chunks = {}
    /\ nextDocumentId = 2
    /\ deleting = [deletingId |-> NoDocument, calls |-> {}]
    /\ indexing = [i \in DocumentIds |-> NoEmbedding]

\* ChatPage with ChatView and the sends it makes
Spec == Init /\ [][ChatNext]_vars

\* the SSE reader of sendMessage on its own
SpecSSE == Init /\ [][SseNext]_vars

\* DocumentUpload, the upload endpoint and the indexer
SpecUpload == Init /\ [][UploadNext]_vars

\* ChatView switching between threads while their messages load
SpecLoad == Init /\ [][LoadNext]_vars

\* useAuth beside the Supabase auth client
SpecAuth == Init /\ [][AuthNext]_vars

\* useRealtimeDocuments beside the documents table
SpecRealtime == Init /\ [][RealtimeNext]_vars

\* inserts and updates of chunks under trg_chunks_search_vector
SpecChunks == Init /\ [][ChunksNext]_vars

\* DocumentUpload validating and sending the files of a batch
SpecValidate == Init /\ [][ValidateNext]_vars

\* the SSE reader of sendMessage reading an answer of the backend
SpecStream == Init /\ [][SseServerNext]_vars

\* the indexer takes up every pending Document, and every job ends
IndexerFairness ==
    /\ WF_vars(\E d \in documents : IndexStart(d))
    /\ WF_vars(\E d \in documents : IndexComplete(d) \/ IndexFail(d))

\* DocumentUpload, the upload endpoint and an indexer that keeps working
SpecIngest == SpecUpload /\ IndexerFairness

\* DocumentUpload and DocumentList, the documents endpoints and the indexer
SpecDocuments == Init /\ [][DocumentsNext]_vars

\* the statements of users on the tables under row-level security
SpecRls == AnyRowsInit /\ [][RlsNext]_vars

\* Reciprocal Rank Fusion on every pair of rank lists
SpecFusion == AnyListsInit /\ [][FusionNext]_vars

\* match_chunks and keyword_search_chunks on every table of chunks
SpecSearch == AnyTableInit /\ [][SearchNext]_vars

\* SettingsPage and the settings endpoint, beside the indexer and DocumentList
SpecSettings == OneDocumentInit /\ [][SettingsNext]_vars

(***************************************************************************)
(* Properties of the chat send.                                            *)
(***************************************************************************)
Range(f) == {f[x] : x \in DOMAIN f}

\* the calls of doSend that have not settled
inFlight == {i \in DOMAIN sends : ~settled(i)}

\* C1: every chat send reaches a terminal state: once no call of doSend is
\* pending any more (its stream delivered done or error, was aborted, failed to
\* start, or closed), sending is false
C1_SendTerminates == inFlight = {} => ~cv.sending

\* C2: within one send an error signal ends the stream: after onError was
\* called, neither onDone nor onTextDelta is called, so onError is the last
\* callback made
C2_ErrorTerminates ==
    \A k \in DOMAIN sseCalls : sseCalls[k].cb = "onError" => k = Len(sseCalls)

\* a whole answer with text was read, it ended in an error, and the body is closed
C2_ErrorSeen ==
    /\ sseClosed
    /\ Len(sseCalls) = 2
    /\ sseCalls[1].cb = "onTextDelta"
    /\ sseCalls[2].cb = "onError"

\* a call of doSend settles in this step and its signal was aborted
AbortStep ==
    \E i \in DOMAIN sends :
        /\ sends[i].pc \in {"fetch", "read"}
        /\ sends[i].signal \in abortedCtl
        /\ sends'[i].pc = "settled"

\* C3 as claimed: when a cancelled send ends, the message list is what it was:
\* no partial assistant message is committed
C3_CancelLeavesMessages == [][AbortStep => cv'.messages = cv.messages]_vars

\* C3: when a cancelled send ends, every message already in the list stays as
\* it is, and the text streamed so far, if there is any, is appended as one
\* assistant message; nothing else is added
C3_CancelCommitsPartial ==
    [][AbortStep =>
        cv'.messages =
            IF cv.streamingContent = <<>> THEN cv.messages
            ELSE Append(cv.messages,
                     [id |-> "assistant", thread_id |-> selectedThreadId,
                      role |-> "assistant", content |-> cv.streamingContent,
                      sources |-> NullSources])]_vars

\* send i was stopped after it had streamed text, and has ended
C3_CancelledAfterText ==
    \E i \in DOMAIN sends :
        /\ sends[i].pc = "settled"
        /\ i \in abortedCtl
        /\ \E k \in DOMAIN cv.messages :
             /\ cv.messages[k].id = "assistant"
             /\ cv.messages[k].content = <<Tokens[i]>>

\* C4: chat turns are independent per thread: text streamed in answer to a send
\* made in one thread is shown only while that thread is selected, and is
\* appended only as a message of that thread
C4_TurnsPerThread ==
    \A i \in DOMAIN sends :
        /\ Tokens[i] \in Range(cv.streamingContent) => sends[i].thread = selectedThreadId
        /\ \A k \in DOMAIN cv.messages :
             (cv.messages[k].id = "assistant" /\ Tokens[i] \in Range(cv.messages[k].content))
                => sends[i].thread = cv.messages[k].thread_id

tempCount(ms) == Cardinality({k \in DOMAIN ms : ms[k].id = "temp"})

\* C5: at most one send is in flight per chat view, and while sending is true
\* no step (handleSubmit, the initial-message send or any other) starts a send
\* or appends a user message
C5_OneSendInFlight ==
    /\ [](Cardinality(inFlight) <= 1)
    /\ [][cv.sending => /\ Len(sends') = Len(sends)
                        /\ tempCount(cv'.messages) <= tempCount(cv.messages)]_vars

\* the initial message was handed to doSend while a send was in flight, and
\* doSend rejected it
C5_RejectedWhileSending ==
    /\ cv.sending
    /\ inFlight # {}
    /\ last = "initialMessage:rejected"

\* the sources event of the backend, as it is written to the body
sourcesEvent == sseEvent("sources", "{src}")

\* the body received so far holds the whole event
received(event) ==
    \E n \in 0..Len(sseReceived) :
        /\ n + Len(event) <= Len(sseReceived)
        /\ SubSeq(sseReceived, n + 1, n + Len(event)) = event

\* C6: when the answer carries a sources event, the sources are delivered to
\* the caller exactly once (one onSources call for the event), so that the
\* message appended on completion can carry them
C6_SourcesDelivered ==
    received(sourcesEvent)
        => Cardinality({k \in DOMAIN sseCalls : sseCalls[k].cb = "onSources"}) = 1

\* the texts passed to onTextDelta, in call order
deltaTexts(calls) ==
    [k \in 1..Len(SelectSeq(calls, LAMBDA c : c.cb = "onTextDelta")) |->
        SelectSeq(calls, LAMBDA c : c.cb = "onTextDelta")[k].arg]

\* the data lines of a body: its newline-terminated lines that start with "data: "
dataLines(body) ==
    LET segments == split(body, <<>>) IN
    SelectSeq(SubSeq(segments, 1, Len(segments) - 1), LAMBDA l : startsWith(l, "data: "))

RECURSIVE contentFields(_)
\* the content fields of the data lines that hold a JSON object with one
contentFields(lines) ==
    IF lines = <<>> THEN <<>>
    ELSE (IF parses(Tail(Head(lines))) /\ JSONTable[Tail(Head(lines))[1]].content # ""
          THEN <<JSONTable[Tail(Head(lines))[1]].content>> ELSE <<>>)
         \o contentFields(Tail(lines))

\* C7: however the body is split across reads, the texts passed to
\* onTextDelta, in order, are the content fields of the data lines received, in
\* stream order
C7_DeltasInOrder == deltaTexts(sseCalls) = contentFields(dataLines(sseReceived))

\* a read ended inside the second data line, before its newline: the text of
\* the first line was delivered, the second line waits in the buffer
C7_SplitInsideLine ==
    /\ sseReceived = <<"data: ", "{a}", LF, "data: ", "{b}">>
    /\ sseBuffer = <<"data: ", "{b}">>
    /\ sseCalls = <<[cb |-> "onTextDelta", arg |-> "a"]>>

UnchangedAnswered(u) ==
    LET file == uploads[u].files[uploads[u].k] IN
    /\ uploads[u].pc = "sent"
    /\ uploads'[u].pc = "answered"
    /\ documentsOf(documents, Owner, file.name) # {}
    /\ mostRecent(documents, Owner, file.name).content_hash = fingerprint(file.body)

\* C9: re-uploading an unmodified file changes no Document (so no chunk_count)
\* and no chunk, creates no chunk, and is answered as skipped
C9_UnchangedIsNoOp ==
    [][\A u \in DOMAIN uploads :
         UnchangedAnswered(u) =>
            /\ documents' = documents
            /\ chunks' = chunks
            /\ uploads'[u].skipped]_vars

\* a file was uploaded again unchanged after it had been indexed, and the
\* answer says skipped
C9_ReuploadSkipped ==
    \E u \in DOMAIN uploads :
        /\ uploads[u].pc = "answered"
        /\ uploads[u].skipped
        /\ \E d \in documents :
             /\ d.filename = uploads[u].files[uploads[u].k].name
             /\ d.status = "completed"
             /\ d.chunk_count = Cardinality({c \in chunks : c.document_id = d.id})
             /\ d.chunk_count > 0

\* call u of handleUpload ends in this step
UploadEnds(u) == uploads[u].pc \in {"sent", "answered"} /\ uploads'[u].pc \in {"done", "failed"}

\* C10: when handleUpload ends, every file of its batch whose upload was
\* answered with skipped = true is named in the info message
C10_SkippedAreReported ==
    [][\A u \in DOMAIN uploads :
         UploadEnds(u) => Range(uploads'[u].skippedFiles) \subseteq Range(info'.names)]_vars

\* the rows of chunks of document d
rowsOf(d) == {c \in chunks : c.document_id = d.id}

\* C11: after a modified file was uploaded again, every stored chunk is a chunk
\* of the content of the Document that now stands for its file: no chunk of a
\* prior version is stored, so no reader of chunks finds one, alone or mixed
\* with new ones
C11_ExactlyNewChunkSet ==
    \A c \in chunks :
        \E d \in documents :
            /\ c.document_id = d.id
            /\ c \in chunkRows(d)
            /\ \A e \in documentsOf(documents, d.user_id, d.filename) :
                 rowsOf(e) # {} => e.content_hash = d.content_hash

\* a changed version of an indexed file was accepted, which removed the chunks
\* of the prior version, and the new version has been indexed
C11_ReplacedAndIndexed ==
    \E u \in DOMAIN uploads :
        /\ uploads[u].pc = "answered"
        /\ uploads[u].replaced > 0
        /\ \E d \in documents :
             /\ d.filename = uploads[u].files[uploads[u].k].name
             /\ d.content_hash = fingerprint(uploads[u].files[uploads[u].k].body)
             /\ d.status = "completed"
             /\ rowsOf(d) = chunkRows(d)

\* the status of the row of documents with this id
statusOf(docs, id) == (CHOOSE d \in docs : d.id = id).status

\* the steps of a status: pending -> processing -> completed | failed
StatusSteps ==
    {<<"pending", "processing">>, <<"processing", "completed">>, <<"processing", "failed">>}

\* C12: the status of a Document is one of pending, processing, completed and
\* failed; a Document starts as pending, and its status changes only by one
\* step of pending -> processing -> completed | failed, so that no step is
\* skipped and a terminal status is never left
C12_StatusPath ==
    [][\A d \in documents' :
         /\ d.status \in {"pending", "processing", "completed", "failed"}
         /\ IF \E e \in documents : e.id = d.id
            THEN \/ d.status = statusOf(documents, d.id)
                 \/ <<statusOf(documents, d.id), d.status>> \in StatusSteps
            ELSE d.status = "pending"]_vars

\* one Document has been indexed and another has failed
C12_BothTerminals ==
    /\ \E d \in documents : d.status = "completed"
    /\ \E d \in documents : d.status = "failed"

\* document i exists and its status is not terminal
unfinished(i) == \E d \in documents : d.id = i /\ d.status \in {"pending", "processing"}

C14_ChunkCount ==
    \A d \in documents :
        d.status = "completed" => Cardinality(rowsOf(d)) = d.chunk_count

\* two Documents with different numbers of chunks are completed
C14_TwoCompleted ==
    \E d \in documents : \E e \in documents :
        /\ d.status = "completed" /\ e.status = "completed"
        /\ d.chunk_count = 2 /\ e.chunk_count = 1
        /\ Cardinality(rowsOf(d)) = 2 /\ Cardinality(rowsOf(e)) = 1

\* C15: every chunk references a Document that exists: when a Document is
\* deleted, by handleDelete or by a replacing upload, its chunks go with it
C15_NoOrphanChunk ==
    \A c \in chunks : \E d \in documents : d.id = c.document_id

\* the documents endpoint has deleted a Document with its chunks for a
\* handleDelete call that is still waiting, while chunks of another Document stay
C15_DeletedWithChunks ==
    \E c \in deleting.calls :
        /\ c.pc = "answered"
        /\ c.removed > 0
        /\ \A d \in documents : d.id # c.id
        /\ \A r \in chunks : r.document_id # c.id
        /\ chunks # {}

LockedUpdateHandled ==
    /\ request.kind = "put" /\ request.pc = "sent"
    /\ request'.kind = "put" /\ request'.pc # "sent"
    /\ chunks # {}
    /\ embeddingFields(request.update) # embeddingFields(settings)

\* C17: while a chunk exists no step changes embedding_model,
\* embedding_base_url, embedding_api_key or embedding_dimensions of the stored
\* settings, and an update that would is rejected, whatever has_chunks the
\* page was loaded with
C17_EmbeddingLocked ==
    [][/\ chunks # {} => embeddingFields(settings') = embeddingFields(settings)
       /\ LockedUpdateHandled => request'.pc = "rejected" /\ settings' = settings]_vars

\* the page was loaded before any chunk existed and its embedding inputs are
\* enabled; chunks were written since, and the update it sent, which changes an
\* embedding-related field, has been rejected
C17_StaleFormRejected ==
    /\ ~page.hasChunks
    /\ page.saving
    /\ chunks # {}
    /\ request.kind = "put" /\ request.pc = "rejected"
    /\ embeddingFields(request.update) # embeddingFields(settings)

returns(t, c, f, n) ==
    IF c.fn = "match_chunks"
    THEN match_chunks(t, c.query_embedding, c.match_threshold, n, c.p_user_id, f)
    ELSE keyword_search_chunks(t, c.p_query, n, c.p_user_id, f)

\* the count limit of call c
limitOf(c) == IF c.fn = "match_chunks" THEN c.match_count ELSE c.p_match_count

\* table t without the rows of other owners than uid
own(t, uid) == [i \in {j \in DOMAIN t : t[j].user_id = uid} |-> t[i]]

\* C19: every row a retrieval function returns is a chunk whose user_id is the
\* p_user_id of the call, and what the call may return is what it may return
\* on the table without the chunks of all other owners
C19_OwnerScoped ==
    searchCall.fn # "null" =>
        /\ \A k \in DOMAIN searchResult :
             searchTable[searchResult[k].id].user_id = searchCall.p_user_id
        /\ returns(searchTable, searchCall, searchCall.p_metadata_filter, limitOf(searchCall))
             = returns(own(searchTable, searchCall.p_user_id), searchCall,
                       searchCall.p_metadata_filter, limitOf(searchCall))

\* match_chunks with a count limit of 1 returned a chunk of its owner although
\* a chunk of another owner, with the same metadata, is nearer to the query
C19_NearerChunkOfOther ==
    /\ searchCall.fn = "match_chunks"
    /\ searchCall.match_count = 1
    /\ Len(searchResult) = 1
    /\ \E i \in DOMAIN searchTable :
         /\ searchTable[i].user_id \notin {searchCall.p_user_id, NullUuid}
         /\ searchTable[i].metadata = searchResult[1].metadata
         /\ 10 - distance(searchTable[i].embedding, searchCall.query_embedding)
              > searchResult[1].similarity

\* the chunks that are candidates of call c on table t with filter f: those
\* it returns when the count limit cuts nothing
candidates(t, c, f) ==
    UNION {{r[k].id : k \in DOMAIN r} : r \in returns(t, c, f, MaxRows)}

\* table t with every metadata made the empty object
plain(t) == [i \in DOMAIN t |-> [t[i] EXCEPT !.metadata = Json({})]]

\* C20: in both retrieval functions a chunk is a candidate under a filter F iff
\* it is a candidate without filter and its metadata contains F; without
\* filter the candidates do not depend on any metadata
C20_FilterAppliedAlike ==
    searchCall.fn # "null" =>
        /\ ~searchCall.p_metadata_filter.isNull =>
             candidates(searchTable, searchCall, searchCall.p_metadata_filter)
               = {i \in candidates(searchTable, searchCall, NullJson) :
                     containsJson(searchTable[i].metadata, searchCall.p_metadata_filter)}
        /\ candidates(searchTable, searchCall, NullJson)
             = candidates(plain(searchTable), searchCall, NullJson)

\* keyword_search_chunks was called with a filter on a table of two chunks of
\* the owner that both match the query; the metadata of one contains the
\* filter, that of the other does not, and only the first was returned
C20_FilterCutsKeywordPath ==
    /\ searchCall.fn = "keyword_search_chunks"
    /\ searchCall.p_match_count = 2
    /\ searchCall.p_metadata_filter = Json({<<"document_type", "report">>})
    /\ Len(searchResult) = 1
    /\ candidates(searchTable, searchCall, NullJson) = {1, 2}
    /\ \E i \in DOMAIN searchTable : searchTable[i].metadata.isNull

\* the chunks of the owner that a call of match_chunks is to return: those
\* over the threshold that pass the filter
overThreshold(t, c) ==
    {i \in DOMAIN t :
        /\ t[i].user_id = c.p_user_id
        /\ 10 - distance(t[i].embedding, c.query_embedding) > c.match_threshold
        /\ c.p_metadata_filter.isNull \/ containsJson(t[i].metadata, c.p_metadata_filter)}

\* C21: keyword_search_chunks returns no row for a query without searchable
\* tokens; match_chunks, which takes no query text, returns the chunks of the
\* owner over the threshold (that pass the filter): all of them, or as many as
\* the count limit
C21_NoTokensNoKeywordRows ==
    /\ (searchCall.fn = "keyword_search_chunks"
          /\ websearch_to_tsquery(searchCall.p_query) = {}) => searchResult = <<>>
    /\ searchCall.fn = "match_chunks" =>
         /\ {searchResult[k].id : k \in DOMAIN searchResult}
              \subseteq overThreshold(searchTable, searchCall)
         /\ \A j \in DOMAIN searchResult : \A k \in DOMAIN searchResult :
              searchResult[j].id = searchResult[k].id => j = k
         /\ Len(searchResult) =
              IF Cardinality(overThreshold(searchTable, searchCall)) < searchCall.match_count
              THEN Cardinality(overThreshold(searchTable, searchCall))
              ELSE searchCall.match_count

\* keyword_search_chunks was called with a query of stop words only, on a
\* table that holds chunks of the owner, and returned nothing
C21_StopWordsOnly ==
    /\ searchCall.fn = "keyword_search_chunks"
    /\ searchCall.p_query = <<"the">>
    /\ searchCall.p_metadata_filter.isNull
    /\ \E i \in DOMAIN searchTable : searchTable[i].user_id = searchCall.p_user_id
    /\ searchResult = <<>>

\* a result that occurs in no rank list
Another == MaxResults + 1

\* the list with x replaced by another result: all others keep their ranks
replaced(list, x) == [r \in DOMAIN list |-> IF list[r] = x THEN Another ELSE list[r]]

\* the rank lists with x in the vector list only, and in the keyword list only
vectorOnly(lists, x) == [lists EXCEPT !.keyword = replaced(lists.keyword, x)]
keywordOnly(lists, x) == [lists EXCEPT !.vector = replaced(lists.vector, x)]

\* C22: a result present in both rank lists has a fused score, and a fused
\* position, at least as high as with the same lists but for its place in one
\* of them, which another result takes
C22_RrfMonotone ==
    \A x \in Results :
        (present(rankLists.vector, x) /\ present(rankLists.keyword, x)) =>
            \A one \in {vectorOnly(rankLists, x), keywordOnly(rankLists, x)} :
                /\ fusedScore(rankLists, x) >= fusedScore(one, x)
                /\ rankIn(fuse(rankLists), x) <= rankIn(fuse(one), x)

\* fusion has run, and a result of both lists stands higher in the fused order
\* than it would with its place in the vector list alone
C22_RaisedByBothLists ==
    /\ fused # NotFused
    /\ \E x \in Results :
         /\ present(rankLists.vector, x) /\ present(rankLists.keyword, x)
         /\ rankIn(fused, x) < rankIn(fuse(vectorOnly(rankLists, x)), x)

\* C23: row-level security is enabled on threads, messages, documents and
\* chunks, and every row a statement of a user returns, inserts, changes or
\* deletes has the user_id of that user, before and after the statement
C23_OwnerScopedStorage ==
    [][/\ RlsTables \subseteq RlsEnabled
       /\ rlsLast'.cmd = "SELECT" => \A r \in rlsLast'.returned : r.user_id = rlsLast'.uid
       /\ \A r \in (rlsRows \ rlsRows') \cup (rlsRows' \ rlsRows) : r.user_id = rlsLast'.uid]_vars

\* a user tried to update a row of another user to make it their own; the
\* statement changed nothing and the row is still there
C23_ForeignUpdateRefused ==
    /\ rlsLast.cmd = "UPDATE"
    /\ ~rlsLast.ok
    /\ rlsLast.uid \in Users
    /\ rlsLast.row.user_id \in Users \ {rlsLast.uid}
    /\ rlsLast.row \in rlsRows
    /\ \E r \in rlsRows : r.table = rlsLast.row.table /\ r.user_id = rlsLast.uid

\* the name ends in .txt or .md, in any case: a dot, then the extension
endsInAllowedExtension(name) ==
    /\ Len(name) >= 2
    /\ toLowerCase(name[Len(name)]) \in {"txt", "md"}

\* C24: every file of a batch that handleUpload sends has a name that ends in
\* .txt or .md (in any case) and a size of at most 10 MB
C24_SendsOnlyAllowed ==
    \A u \in DOMAIN uploads : \A k \in DOMAIN uploads[u].files :
        /\ endsInAllowedExtension(uploads[u].files[k].name)
        /\ uploads[u].files[k].size <= MaxFileSize

\* a batch with a file that fails validation: no request is made for any file
\* of it, the validation error is shown, and uploading stays as it was
C24_AllOrNothing ==
    [][\A files \in PickedBatches :
         (HandleUpload(files) /\ \E k \in DOMAIN files : validateFile(files[k]) # NoError)
             => /\ uploads' = uploads
                /\ uploadError' \in {"Unsupported file type", "File too large"}
                /\ uploading' = uploading]_vars

\* a batch was refused for an invalid file after another batch was sent
C24_BatchRefused ==
    /\ uploadError \in {"Unsupported file type", "File too large"}
    /\ Len(uploads) = 1

\* C25: every chunk's search_vector is to_tsvector('english', content) of its
\* current content
C25_VectorOfContent ==
    \A i \in DOMAIN searchTable :
        searchTable[i].search_vector = to_tsvector(searchTable[i].content)

\* the same of an update that names content in its SET list, whatever else it
\* assigns, and of every insert
C25_VectorOfWrittenContent ==
    [][/\ \A new \in StatementRows : ChunkInsert(new) =>
            searchTable'[Len(searchTable')].search_vector
                = to_tsvector(searchTable'[Len(searchTable')].content)
       /\ \A i \in DOMAIN searchTable :
            searchTable'[i].content # searchTable[i].content =>
                searchTable'[i].search_vector = to_tsvector(searchTable'[i].content)]_vars

\* C26: the list held by useRealtimeDocuments has no two entries with the same id
C26_NoDuplicateIds ==
    \A i, j \in DOMAIN rtDocuments :
        rtDocuments[i].id = rtDocuments[j].id => i = j

\* send i was stopped by handleStop and its doSend ends in this step
stoppedSendEnds(i, pcs) ==
    /\ i \in abortedCtl
    /\ sends[i].pc \in pcs
    /\ sends'[i].pc = "settled"

\* C27: a send that handleStop has stopped ends with sending = false and
\* error = null, whether it was waiting for the title update, the response or
\* the stream
C27_StopEndsClean ==
    [][\A i \in DOMAIN sends :
         stoppedSendEnds(i, {"title", "fetch", "read"})
             => ~cv'.sending /\ cv'.error = NoError]_vars

\* a send whose fetch or read rejects with the AbortError of handleStop ends
\* with sending = false and the error as it was: null
C27_AbortEndsClean ==
    [][\A i \in DOMAIN sends :
         AbortObserved(i) => ~cv'.sending /\ cv'.error = NoError]_vars

\* the initial-message effect called doSend in this step
initialMessageTried == last' \in {"initialMessage:sent", "initialMessage:rejected"}

\* no second send of the initial message is started while its thread stays
\* selected: the effect calls doSend at most once per selected thread
C28_NoSecondSend ==
    [][(cv.initialMessageSentRef /\ selectedThreadId' = selectedThreadId)
          => ~initialMessageTried]_vars

\* C28: the initial message of a thread created from the welcome form is sent
\* exactly once: the doSend that the initial-message effect calls starts a
\* send, and it is not called again while the thread stays selected
C28_InitialMessageSentOnce ==
    [][/\ initialMessageTried =>
            /\ last' = "initialMessage:sent"
            /\ Len(sends') = Len(sends) + 1
       /\ (cv.initialMessageSentRef /\ selectedThreadId' = selectedThreadId)
            => ~initialMessageTried]_vars

\* C29: when the response of a getMessages call made for a thread that is no
\* longer the selected one arrives, the message list and loading stay as they are
C29_LateResponseIgnored ==
    [][\A l \in loads :
         (l \notin loads' /\ l.thread # selectedThreadId)
             => cv'.messages = cv.messages /\ cv'.loading = cv.loading]_vars

\* thread B is selected and shows its messages while the response for A, from
\* which the user switched away, has not arrived yet
C29_LateResponsePending ==
    /\ selectedThreadId = "B"
    /\ ~cv.loading
    /\ cv.messages = StoredMessages("B")
    /\ \E l \in loads : l.thread = "A" /\ l.cancelled

\* C30: useAuth never reports isAdmin = true while user = null
C30_NoAdminWithoutUser == ~(auth.isAdmin /\ auth.user = NoSession)

\* isAdmin is true with no user and nothing is left to change it: no event, no
\* request, no lookup and no signOut is pending
C30_AdminLeftAfterSignOut ==
    /\ auth.isAdmin
    /\ auth.user = NoSession
    /\ sbSession = NoSession
    /\ lookup = "done"
    /\ authEvents = <<>>
    /\ signOuts = 0
    /\ \A r \in DOMAIN adminRequests : adminRequests[r].pc = "done"

====
